---- MODULE Spec2Model ----
(***************************************************************************)
(* A model of the HTTP/1.1 server library: the framed reader (read_n,      *)
(* read_until, read_chunked), the request parser, the connection driver    *)
(* (handle_connection / process_request), and the accept loop with its     *)
(* two cancellation channels.                                              *)
(*                                                                         *)
(* Text is a sequence of one-character strings; the characters CR, LF and  *)
(* TAB are written "CR", "LF" and "TAB".  On the wire the text of a        *)
(* request line together with its header lines travels as one unit (a      *)
(* token of HeaderText), followed by the bytes CR LF CR LF; every other    *)
(* byte of the wire is a character.  Sizes are counted in units.           *)
(***************************************************************************)
EXTENDS Integers, Sequences, FiniteSets, TLC

\* ------------------------------------------------------------------ bounds
\* the reader's BUFFER_SIZE, scaled down
BufferSize == 24
\* size_config.request_header_max_size, scaled down
HeaderMax == 24
\* size_config.request_body_max_size, scaled down
BodyMax == 8
\* how many messages the client sends on one connection
MaxSends == 2
\* how many connections the accept loop accepts
MaxConns == 2
\* how many requests arrive on one connection of the accept-loop model
MaxServed == 1

\* read_chunked: let needed_size = 5
needed_size == 5

\* ------------------------------------------------------------- byte helpers
CR == "CR"
LF == "LF"
CRLF == <<CR, LF>>
CRLFCRLF == <<CR, LF, CR, LF>>

Min(a, b) == IF a < b THEN a ELSE b

RECURSIVE Concat(_)
Concat(ss) == IF ss = <<>> THEN <<>> ELSE Head(ss) \o Concat(Tail(ss))

\* slice[from..to] of Rust (0-based, `to` exclusive); callers check the range
Slice(s, from, to) == SubSeq(s, from + 1, to)

\* bytes.windows(delimiter.len()).position(|w| w == delimiter), -1 for None
position(bytes, delimiter) ==
    LET n == Len(delimiter)
        hits == {i \in 0..(Len(bytes) - n) : \A k \in 1..n : bytes[i + k] = delimiter[k]}
    IN  IF hits = {} THEN -1 ELSE CHOOSE i \in hits : \A j \in hits : i <= j

bytes_contain(bytes, delimiter) == position(bytes, delimiter) # -1

\* ------------------------------------------------------------- text helpers
Whitespace == {" ", "TAB", CR, LF}

RECURSIVE trim_start(_)
trim_start(s) ==
    IF s # <<>> /\ Head(s) \in Whitespace THEN trim_start(Tail(s)) ELSE s

RECURSIVE trim_end(_)
trim_end(s) ==
    IF s # <<>> /\ s[Len(s)] \in Whitespace
    THEN trim_end(SubSeq(s, 1, Len(s) - 1)) ELSE s

trim(s) == trim_end(trim_start(s))

\* str::split_once: None, or the text before and after the first delimiter
split_once(s, d) ==
    LET i == position(s, d)
    IN  IF i = -1 THEN [some |-> FALSE]
        ELSE [some |-> TRUE, a |-> Slice(s, 0, i), b |-> Slice(s, i + Len(d), Len(s))]

\* str::split: the pieces between the delimiters, empty pieces included
RECURSIVE split(_, _)
split(s, d) ==
    LET i == position(s, d)
    IN  IF i = -1 THEN <<s>>
        ELSE <<Slice(s, 0, i)>> \o split(Slice(s, i + Len(d), Len(s)), d)

UpperAlpha == <<"A", "B", "C", "D", "E", "F", "G", "H", "I", "J", "K", "L", "M",
                "N", "O", "P", "Q", "R", "S", "T", "U", "V", "W", "X", "Y", "Z">>
LowerAlpha == <<"a", "b", "c", "d", "e", "f", "g", "h", "i", "j", "k", "l", "m",
                "n", "o", "p", "q", "r", "s", "t", "u", "v", "w", "x", "y", "z">>

to_lowercase(s) ==
    [i \in DOMAIN s |->
        IF \E k \in DOMAIN UpperAlpha : UpperAlpha[k] = s[i]
        THEN LowerAlpha[CHOOSE k \in DOMAIN UpperAlpha : UpperAlpha[k] = s[i]]
        ELSE s[i]]

contains(s, sub) == position(s, sub) # -1

starts_with(s, pre) == Len(s) >= Len(pre) /\ SubSeq(s, 1, Len(pre)) = pre

Digits == <<"0", "1", "2", "3", "4", "5", "6", "7", "8", "9",
            "a", "b", "c", "d", "e", "f">>

DigitValue(c, radix) ==
    LET lc == to_lowercase(<<c>>)[1]
        ks == {k \in 1..radix : Digits[k] = lc}
    IN  IF ks = {} THEN -1 ELSE (CHOOSE k \in ks : TRUE) - 1

RECURSIVE DigitsValue(_, _, _)
DigitsValue(s, radix, acc) ==
    IF s = <<>> THEN acc
    ELSE IF DigitValue(Head(s), radix) = -1 THEN -1
    ELSE DigitsValue(Tail(s), radix, acc * radix + DigitValue(Head(s), radix))

\* usize::from_str_radix: -1 for Err (empty, a sign alone, or a non-digit)
from_str_radix(s, radix) ==
    LET digits == IF s # <<>> /\ Head(s) = "+" THEN Tail(s) ELSE s
    IN  IF digits = <<>> THEN -1 ELSE DigitsValue(digits, radix, 0)

\* the decimal text of a number
RECURSIVE to_string(_)
to_string(n) ==
    IF n < 10 THEN <<Digits[n + 1]>>
    ELSE to_string(n \div 10) \o <<Digits[(n % 10) + 1]>>

\* ------------------------------------------------------------- header map
\* Map<DuplicateMap>: a vector of (key, Single(value) | List(values))
Map_has(m, index) == \E i \in DOMAIN m : m[i].key = index

Map_first(m, index) == CHOOSE i \in DOMAIN m :
    m[i].key = index /\ \A j \in DOMAIN m : m[j].key = index => i <= j

\* a faulty add that pushes a new entry whatever the map holds
Map_add_pushes(m, key, value) ==
    Append(m, [key |-> key, single |-> TRUE, vals |-> <<value>>])

Map_add(m, key, value) ==
    IF Map_has(m, key)
    THEN [m EXCEPT ![Map_first(m, key)] =
             [key |-> key, single |-> FALSE, vals |-> Append(@.vals, value)]]
    ELSE Append(m, [key |-> key, single |-> TRUE, vals |-> <<value>>])

Map_add_require_single(m, key, value) ==
    IF Map_has(m, key) THEN [ok |-> FALSE, map |-> m]
    ELSE [ok |-> TRUE,
          map |-> Append(m, [key |-> key, single |-> TRUE, vals |-> <<value>>])]

\* Option<&String>: [some |-> FALSE] for None (absent, or a List)
get_single(m, index) ==
    IF Map_has(m, index) /\ m[Map_first(m, index)].single
    THEN [some |-> TRUE, v |-> m[Map_first(m, index)].vals[1]]
    ELSE [some |-> FALSE]

\* Ok(Some(v)) | Ok(None) | Err
get_require_single(m, index) ==
    IF ~Map_has(m, index) THEN [ok |-> TRUE, some |-> FALSE]
    ELSE IF m[Map_first(m, index)].single
    THEN [ok |-> TRUE, some |-> TRUE, v |-> m[Map_first(m, index)].vals[1]]
    ELSE [ok |-> FALSE, some |-> FALSE]

\* ------------------------------------------------------------- the parser
S_host == <<"h", "o", "s", "t">>
S_connection == <<"c", "o", "n", "n", "e", "c", "t", "i", "o", "n">>
S_close == <<"c", "l", "o", "s", "e">>
S_expect == <<"e", "x", "p", "e", "c", "t">>
S_100_continue == <<"1", "0", "0", "-", "c", "o", "n", "t", "i", "n", "u", "e">>
S_content_length == <<"c", "o", "n", "t", "e", "n", "t", "-", "l", "e", "n", "g", "t", "h">>
S_transfer_encoding == <<"t", "r", "a", "n", "s", "f", "e", "r", "-",
                         "e", "n", "c", "o", "d", "i", "n", "g">>
S_chunked == <<"c", "h", "u", "n", "k", "e", "d">>
S_http == <<"h", "t", "t", "p">>

DUPLICATABLE_HEADER_NAMES == {
    <<"s", "e", "t", "-", "c", "o", "o", "k", "i", "e">>,
    <<"w", "a", "r", "n", "i", "n", "g">>,
    <<"w", "w", "w", "-", "a", "u", "t", "h", "e", "n", "t", "i", "c", "a", "t", "e">>,
    <<"p", "r", "o", "x", "y", "-", "a", "u", "t", "h", "e", "n", "t", "i", "c", "a", "t", "e">>,
    <<"a", "c", "c", "e", "p", "t">>,
    <<"v", "i", "a">>,
    <<"a", "c", "c", "e", "p", "t", "-", "l", "a", "n", "g", "u", "a", "g", "e">>,
    <<"l", "i", "n", "k">>,
    <<"f", "o", "r", "w", "a", "r", "d", "e", "d">>}

AsciiAlphanumeric ==
    {UpperAlpha[k] : k \in DOMAIN UpperAlpha} \cup {LowerAlpha[k] : k \in DOMAIN LowerAlpha}
    \cup {"0", "1", "2", "3", "4", "5", "6", "7", "8", "9"}

\* a letter outside ASCII: char::is_alphanumeric holds of it, its bytes are >= 128
NonAsciiLetters == {"e_acute"}

\* the control characters of the model: bytes below 32 other than TAB, and DEL (127)
ControlChars == {CR, LF, "NUL", "DEL"}

\* an octet that is not valid UTF-8
InvalidUtf8 == {"xFF"}

is_tchar(c) ==
    c \in AsciiAlphanumeric
    \/ c \in {"!", "#", "$", "%", "&", "'", "*", "+", "-", ".", "^", "_", "BACKTICK", "|", "~"}

is_valid_header_name(name) ==
    \A i \in DOMAIN name :
        name[i] \in AsciiAlphanumeric \cup NonAsciiLetters \/ is_tchar(name[i])

is_valid_header_value(value) ==
    \A i \in DOMAIN value : value[i] \notin ControlChars

\* a faulty policy that lets every name repeat
header_always_duplicate(name) == TRUE

header_can_be_duplicate(name) == name \in DUPLICATABLE_HEADER_NAMES

MethodText == [
    GET |-> <<"G", "E", "T">>,
    POST |-> <<"P", "O", "S", "T">>,
    PUT |-> <<"P", "U", "T">>,
    DELETE |-> <<"D", "E", "L", "E", "T", "E">>,
    OPTIONS |-> <<"O", "P", "T", "I", "O", "N", "S">>,
    HEAD |-> <<"H", "E", "A", "D">>,
    CONNECT |-> <<"C", "O", "N", "N", "E", "C", "T">>,
    TRACE |-> <<"T", "R", "A", "C", "E">>,
    PATCH |-> <<"P", "A", "T", "C", "H">>,
    UPDATE |-> <<"U", "P", "D", "A", "T", "E">>]

\* Option<HttpMethod>, "None" for None
parse_method(method) ==
    IF \E m \in DOMAIN MethodText : MethodText[m] = method
    THEN CHOOSE m \in DOMAIN MethodText : MethodText[m] = method
    ELSE "None"

VersionText == [
    Http1_0 |-> <<"H", "T", "T", "P", "/", "1", ".", "0">>,
    Http1_1 |-> <<"H", "T", "T", "P", "/", "1", ".", "1">>]

parse_http_version(input) ==
    IF \E v \in DOMAIN VersionText : VersionText[v] = input
    THEN CHOOSE v \in DOMAIN VersionText : VersionText[v] = input
    ELSE "None"

parse_http_request_line(line) ==
    LET tokens == split(line, <<" ">>)
    IN  IF Len(tokens) < 3 THEN [ok |-> FALSE, err |-> "UnhandledRequest"]
        ELSE IF parse_method(tokens[1]) = "None"
        THEN [ok |-> FALSE, err |-> "UnhandledRequest"]
        ELSE IF parse_http_version(tokens[3]) = "None"
        THEN [ok |-> FALSE, err |-> "UnhandledRequest"]
        ELSE [ok |-> TRUE, method |-> parse_method(tokens[1]),
              version |-> parse_http_version(tokens[3]), path |-> tokens[2]]

\* Ok(None) | Ok(Some(name, value)) | Err(InvalidHeader)
parse_header_line(header) ==
    LET sp == split_once(header, <<":">>)
        header_name == to_lowercase(trim_end(sp.a))
        header_value == trim_start(sp.b)
    IN  IF header = <<>> THEN [t |-> "None"]
        ELSE IF ~sp.some THEN [t |-> "None"]
        ELSE IF ~is_valid_header_name(header_name) \/ ~is_valid_header_value(header_value)
        THEN [t |-> "Err"]
        ELSE [t |-> "Some", name |-> header_name, value |-> header_value]

RECURSIVE parse_headers_from(_, _)
parse_headers_from(headers, header_map) ==
    IF headers = <<>> THEN [ok |-> TRUE, map |-> header_map]
    ELSE
        LET header == Head(headers)
            line == parse_header_line(header)
        IN  CASE line.t = "Err" -> [ok |-> FALSE, err |-> "InvalidHeader"]
              [] line.t = "None" ->
                    IF header # <<>> THEN [ok |-> FALSE, err |-> "InvalidHeader"]
                    ELSE parse_headers_from(Tail(headers), header_map)
              [] line.t = "Some" ->
                    IF header_can_be_duplicate(line.name)
                    THEN parse_headers_from(Tail(headers),
                                            Map_add(header_map, line.name, line.value))
                    ELSE IF Map_add_require_single(header_map, line.name, line.value).ok
                    THEN parse_headers_from(Tail(headers),
                            Map_add_require_single(header_map, line.name, line.value).map)
                    ELSE [ok |-> FALSE, err |-> "InvalidHeader"]

parse_headers(headers) == parse_headers_from(headers, <<>>)

\* ------------------------------------------------------------- the wire
\* the units of the wire: the text of a request line and its header lines
HeaderText == [
    H_get |->
        <<"G", "E", "T", " ", "/", " ", "H", "T", "T", "P", "/", "1", ".", "1", "CR", "LF", "H", "o", "s", "t", ":", " ", "x">>,
    H_close |->
        <<"G", "E", "T", " ", "/", " ", "H", "T", "T", "P", "/", "1", ".", "1", "CR", "LF", "H", "o", "s", "t", ":", " ", "x", "CR", "LF", "C", "o", "n", "n", "e", "c", "t", "i", "o", "n", ":", " ", "c", "l", "o", "s", "e">>,
    H_Close |->
        <<"G", "E", "T", " ", "/", " ", "H", "T", "T", "P", "/", "1", ".", "1", "CR", "LF", "H", "o", "s", "t", ":", " ", "x", "CR", "LF", "C", "O", "N", "N", "E", "C", "T", "I", "O", "N", ":", " ", "C", "L", "o", "s", "e">>,
    H_keep |->
        <<"G", "E", "T", " ", "/", " ", "H", "T", "T", "P", "/", "1", ".", "1", "CR", "LF", "H", "o", "s", "t", ":", " ", "x", "CR", "LF", "C", "o", "n", "n", "e", "c", "t", "i", "o", "n", ":", " ", "k", "e", "e", "p", "-", "a", "l", "i", "v", "e">>,
    H_cl2 |->
        <<"P", "O", "S", "T", " ", "/", " ", "H", "T", "T", "P", "/", "1", ".", "1", "CR", "LF", "H", "o", "s", "t", ":", " ", "x", "CR", "LF", "C", "o", "n", "t", "e", "n", "t", "-", "L", "e", "n", "g", "t", "h", ":", " ", "2">>,
    H_exp_cl2 |->
        <<"P", "O", "S", "T", " ", "/", " ", "H", "T", "T", "P", "/", "1", ".", "1", "CR", "LF", "H", "o", "s", "t", ":", " ", "x", "CR", "LF", "E", "x", "p", "e", "c", "t", ":", " ", "1", "0", "0", "-", "c", "o", "n", "t", "i", "n", "u", "e", "CR", "LF", "C", "o", "n", "t", "e", "n", "t", "-", "L", "e", "n", "g", "t", "h", ":", " ", "2">>,
    H_chunked |->
        <<"P", "O", "S", "T", " ", "/", " ", "H", "T", "T", "P", "/", "1", ".", "1", "CR", "LF", "H", "o", "s", "t", ":", " ", "x", "CR", "LF", "T", "r", "a", "n", "s", "f", "e", "r", "-", "E", "n", "c", "o", "d", "i", "n", "g", ":", " ", "c", "h", "u", "n", "k", "e", "d">>,
    H_Exp_chunked |->
        <<"P", "O", "S", "T", " ", "/", " ", "H", "T", "T", "P", "/", "1", ".", "1", "CR", "LF", "H", "o", "s", "t", ":", " ", "x", "CR", "LF", "E", "x", "p", "e", "c", "t", ":", " ", "1", "0", "0", "-", "C", "o", "n", "t", "i", "n", "u", "e", "CR", "LF", "T", "r", "a", "n", "s", "f", "e", "r", "-", "E", "n", "c", "o", "d", "i", "n", "g", ":", " ", "c", "h", "u", "n", "k", "e", "d", "CR", "LF", "C", "o", "n", "n", "e", "c", "t", "i", "o", "n", ":", " ", "c", "l", "o", "s", "e">>,
    H_exp_other |->
        <<"G", "E", "T", " ", "/", " ", "H", "T", "T", "P", "/", "1", ".", "1", "CR", "LF", "H", "o", "s", "t", ":", " ", "x", "CR", "LF", "E", "x", "p", "e", "c", "t", ":", " ", "2", "0", "0", "-", "o", "k">>,
    H_exp_bad |->
        <<"P", "O", "S", "T", " ", "/", " ", "H", "T", "T", "P", "/", "1", ".", "1", "CR", "LF", "H", "o", "s", "t", ":", " ", "x", "CR", "LF", "E", "x", "p", "e", "c", "t", ":", " ", "1", "0", "0", "-", "c", "o", "n", "t", "i", "n", "u", "e", "CR", "LF", "C", "o", "n", "t", "e", "n", "t", "-", "L", "e", "n", "g", "t", "h", ":", " ", "z", "z">>,
    H_nohost |->
        <<"G", "E", "T", " ", "/", " ", "H", "T", "T", "P", "/", "1", ".", "1", "CR", "LF", "E", "x", "p", "e", "c", "t", ":", " ", "1", "0", "0", "-", "c", "o", "n", "t", "i", "n", "u", "e">>,
    H_brew |->
        <<"B", "R", "E", "W", " ", "/", " ", "H", "T", "T", "P", "/", "1", ".", "1", "CR", "LF", "H", "o", "s", "t", ":", " ", "x">>,
    H_big |->
        <<"P", "O", "S", "T", " ", "/", " ", "H", "T", "T", "P", "/", "1", ".", "1", "CR", "LF", "H", "o", "s", "t", ":", " ", "x", "CR", "LF", "C", "o", "n", "t", "e", "n", "t", "-", "L", "e", "n", "g", "t", "h", ":", " ", "9", "9">>,
    H_te_gzip |->
        <<"P", "O", "S", "T", " ", "/", " ", "H", "T", "T", "P", "/", "1", ".", "1", "CR", "LF", "H", "o", "s", "t", ":", " ", "x", "CR", "LF", "T", "r", "a", "n", "s", "f", "e", "r", "-", "E", "n", "c", "o", "d", "i", "n", "g", ":", " ", "g", "z", "i", "p">>,
    H_both |->
        <<"P", "O", "S", "T", " ", "/", " ", "H", "T", "T", "P", "/", "1", ".", "1", "CR", "LF", "H", "o", "s", "t", ":", " ", "x", "CR", "LF", "C", "o", "n", "t", "e", "n", "t", "-", "L", "e", "n", "g", "t", "h", ":", " ", "2", "CR", "LF", "T", "r", "a", "n", "s", "f", "e", "r", "-", "E", "n", "c", "o", "d", "i", "n", "g", ":", " ", "c", "h", "u", "n", "k", "e", "d">>,
    H_options |->
        <<"O", "P", "T", "I", "O", "N", "S", " ", "/", " ", "H", "T", "T", "P", "/", "1", ".", "1", "CR", "LF", "H", "o", "s", "t", ":", " ", "x", "CR", "LF", "C", "o", "n", "n", "e", "c", "t", "i", "o", "n", ":", " ", "c", "l", "o", "s", "e">>,
    H_options_nope |->
        <<"O", "P", "T", "I", "O", "N", "S", " ", "/", "n", "o", "p", "e", " ", "H", "T", "T", "P", "/", "1", ".", "1", "CR", "LF", "H", "o", "s", "t", ":", " ", "x">>,
    H_nope |->
        <<"G", "E", "T", " ", "/", "n", "o", "p", "e", " ", "H", "T", "T", "P", "/", "1", ".", "1", "CR", "LF", "H", "o", "s", "t", ":", " ", "x">>,
    H_put |->
        <<"P", "U", "T", " ", "/", "u", "/", "7", " ", "H", "T", "T", "P", "/", "1", ".", "1", "CR", "LF", "H", "o", "s", "t", ":", " ", "x", "CR", "LF", "C", "o", "n", "n", "e", "c", "t", "i", "o", "n", ":", " ", "c", "l", "o", "s", "e">>,
    H_user |->
        <<"G", "E", "T", " ", "/", "u", "/", "7", " ", "H", "T", "T", "P", "/", "1", ".", "0">>]

Tokens == DOMAIN HeaderText

\* the text of the bytes read: a unit stands for its text, a byte for itself
RECURSIVE Expand(_)
Expand(bytes) ==
    IF \A i \in DOMAIN bytes : bytes[i] \notin Tokens THEN bytes
    ELSE (IF Head(bytes) \in Tokens THEN HeaderText[Head(bytes)] ELSE <<Head(bytes)>>)
         \o Expand(Tail(bytes))

\* a faulty needs_continue that looks for 100-continue without folding the case
needs_continue_exact(header_map) ==
    LET e == get_single(header_map, S_expect)
    IN  e.some /\ contains(e.v, S_100_continue)

\* parse_request: needs_continue
needs_continue(header_map) ==
    LET e == get_single(header_map, S_expect)
    IN  e.some /\ contains(to_lowercase(e.v), S_100_continue)

\* a faulty check that asks for Host whatever the version
missing_host_any_version(http_version, header_map) == ~Map_has(header_map, S_host)

\* parse_request: an HTTP/1.1 request without Host
missing_host(http_version, header_map) ==
    http_version = "Http1_1" /\ ~Map_has(header_map, S_host)

\* a faulty check that lets both framing headers through
both_framings_allowed(header_map) == FALSE

\* parse_request: Content-Length together with Transfer-Encoding
both_framings(header_map) ==
    Map_has(header_map, S_content_length) /\ Map_has(header_map, S_transfer_encoding)

\* a faulty limit that also refuses a body of exactly the maximal size
payload_too_large_or_equal(content_length) == content_length >= BodyMax

\* parse_body: the Content-Length is above request_body_max_size
payload_too_large(content_length) == content_length > BodyMax

\* parse_request up to the decision to send 100 Continue
\* a faulty loop that passes over a piece without `=`
RECURSIVE query_params_from_bare_skipped(_, _)
query_params_from_bare_skipped(params, query_params) ==
    IF params = <<>> THEN query_params
    ELSE LET kv == split_once(Head(params), <<"=">>)
         IN  IF ~kv.some THEN query_params_from_bare_skipped(Tail(params), query_params)
             ELSE query_params_from_bare_skipped(Tail(params),
                                                 Map_add(query_params, kv.a, kv.b))

\* parse_query_params: the loop over the pieces of the query string
RECURSIVE query_params_from(_, _)
query_params_from(params, query_params) ==
    IF params = <<>> THEN query_params
    ELSE LET kv == split_once(Head(params), <<"=">>)
             key == IF kv.some THEN kv.a ELSE Head(params)
             value == IF kv.some THEN kv.b ELSE <<>>
         IN  query_params_from(Tail(params), Map_add(query_params, key, value))

parse_query_params(path) ==
    LET query_start == IF position(path, <<"?">>) # -1 THEN position(path, <<"?">>)
                       ELSE Len(path)
    IN  IF query_start < Len(path)
        THEN query_params_from(split(Slice(path, query_start + 1, Len(path)), <<"&">>),
                               <<>>)
        ELSE <<>>

parse_request_head(request_headers) ==
    LET headers_s == Expand(request_headers)
        sp == split_once(headers_s, CRLF)
        line == parse_http_request_line(sp.a)
        hm == parse_headers(split(sp.b, CRLF))
    IN  IF \E i \in DOMAIN headers_s : headers_s[i] \in InvalidUtf8
        THEN [ok |-> FALSE, err |-> "InvalidRequest"]
        ELSE IF ~sp.some THEN [ok |-> FALSE, err |-> "InvalidRequest"]
        ELSE IF ~line.ok THEN [ok |-> FALSE, err |-> line.err]
        ELSE IF ~hm.ok THEN [ok |-> FALSE, err |-> hm.err]
        ELSE IF missing_host(line.version, hm.map)
        THEN [ok |-> FALSE, err |-> "InvalidRequest"]
        ELSE IF both_framings(hm.map)
        THEN [ok |-> FALSE, err |-> "InvalidRequest"]
        ELSE [ok |-> TRUE, err |-> "none",
              method |-> line.method, http_version |-> line.version,
              path |-> line.path, headers |-> hm.map,
              needs_continue |-> needs_continue(hm.map)]

\* ReadError -> RequestParsingError, as parse_body maps it
map_read_error(e) ==
    CASE e = "MaxSizeExceeded" -> "PayloadTooLarge"
      [] e = "IoError" -> "IoError"
      [] e = "Timeout" -> "Timeout"
      [] e = "Cancellation" -> "Cancellation"
      [] e = "UnexpectedError" -> "InvalidBody"

\* ------------------------------------------------------------- the router
\* a faulty match that compares the parts without comparing their number
path_matches_no_length_check(registered_path, path) ==
    IF contains(registered_path, <<":">>)
    THEN LET registered_parts == split(registered_path, <<"/">>)
             path_parts == split(path, <<"/">>)
         IN  \A i \in DOMAIN registered_parts \cap DOMAIN path_parts :
                    \/ starts_with(registered_parts[i], <<":">>)
                    \/ registered_parts[i] = path_parts[i]
    ELSE registered_path = path

\* a faulty match on the target without its query string
path_matches_query_cut(registered_path, path) ==
    LET q == position(path, <<"?">>)
        cut == IF q = -1 THEN path ELSE SubSeq(path, 1, q)
    IN  IF contains(registered_path, <<":">>)
        THEN LET registered_parts == split(registered_path, <<"/">>)
                 path_parts == split(cut, <<"/">>)
             IN  /\ Len(registered_parts) = Len(path_parts)
                 /\ \A i \in DOMAIN registered_parts :
                        \/ starts_with(registered_parts[i], <<":">>)
                        \/ registered_parts[i] = path_parts[i]
        ELSE registered_path = cut

path_matches(registered_path, path) ==
    IF contains(registered_path, <<":">>)
    THEN LET registered_parts == split(registered_path, <<"/">>)
             path_parts == split(path, <<"/">>)
         IN  /\ Len(registered_parts) = Len(path_parts)
             /\ \A i \in DOMAIN registered_parts :
                    \/ starts_with(registered_parts[i], <<":">>)
                    \/ registered_parts[i] = path_parts[i]
    ELSE registered_path = path

\* a faulty match without the wildcard
method_matches_exact(listener_method, method) == listener_method = method

method_matches(listener_method, method) ==
    listener_method = method \/ listener_method = "ALL"

\* str::trim_start_matches(":")
RECURSIVE trim_start_matches(_, _)
trim_start_matches(s, c) ==
    IF s # <<>> /\ Head(s) = c THEN trim_start_matches(Tail(s), c) ELSE s

\* get_path_params: the zip of the two splits, an entry pushed for every `:` part
RECURSIVE path_params_from(_, _)
path_params_from(registered_parts, path_parts) ==
    IF registered_parts = <<>> \/ path_parts = <<>> THEN <<>>
    ELSE (IF starts_with(Head(registered_parts), <<":">>)
          THEN <<[key |-> trim_start_matches(Head(registered_parts), ":"),
                  value |-> Head(path_parts)]>>
          ELSE <<>>)
         \o path_params_from(Tail(registered_parts), Tail(path_parts))

get_path_params(registered_path, path) ==
    path_params_from(split(registered_path, <<"/">>), split(path, <<"/">>))

RECURSIVE join(_, _)
join(parts, sep) ==
    IF parts = <<>> THEN <<>>
    ELSE IF Len(parts) = 1 THEN parts[1]
    ELSE parts[1] \o sep \o join(Tail(parts), sep)

\* process_request: the target of an absolute-form request
rewrite_path(path) ==
    IF contains(path, S_http)
    THEN LET parts == split(path, <<"/">>)
         IN  join(SubSeq(parts, 4, Len(parts)), <<"/">>)
    ELSE path

\* the callbacks registered on the server of the model
Routes == <<
    [method |-> "GET", path |-> <<"/">>, callback |-> "hello"],
    [method |-> "POST", path |-> <<"/">>, callback |-> "echo"],
    [method |-> "GET", path |-> <<"/", "u", "/", ":", "i", "d">>, callback |-> "hello"]>>

\* ------------------------------------------------------------- responses
\* the serializer's BUFFER_SIZE (8192), scaled down
ResponseBufferSize == 2

TEXT_PLAIN == [name |-> "text/plain", is_binary |-> FALSE]
APPLICATION_OCTET_STREAM == [name |-> "application/octet-stream", is_binary |-> TRUE]

\* status_code::ALL: the status codes the server knows, with their reasons
ALL ==
    <<[code |-> 100, reason |-> "Continue"],
      [code |-> 101, reason |-> "Switching Protocols"],
      [code |-> 102, reason |-> "Processing"],
      [code |-> 103, reason |-> "Early Hints"],
      [code |-> 200, reason |-> "OK"],
      [code |-> 201, reason |-> "Created"],
      [code |-> 202, reason |-> "Accepted"],
      [code |-> 203, reason |-> "Non-Authoritative Information"],
      [code |-> 204, reason |-> "No Content"],
      [code |-> 205, reason |-> "Reset Content"],
      [code |-> 206, reason |-> "Partial Content"],
      [code |-> 207, reason |-> "Multi-Status"],
      [code |-> 208, reason |-> "Already Reported"],
      [code |-> 226, reason |-> "IM Used"],
      [code |-> 300, reason |-> "Multiple Choices"],
      [code |-> 301, reason |-> "Moved Permanently"],
      [code |-> 302, reason |-> "Found"],
      [code |-> 303, reason |-> "See Other"],
      [code |-> 304, reason |-> "Not Modified"],
      [code |-> 305, reason |-> "Use Proxy"],
      [code |-> 307, reason |-> "Temporary Redirect"],
      [code |-> 308, reason |-> "Permanent Redirect"],
      [code |-> 400, reason |-> "Bad Request"],
      [code |-> 401, reason |-> "Unauthorized"],
      [code |-> 402, reason |-> "Payment Required"],
      [code |-> 403, reason |-> "Forbidden"],
      [code |-> 404, reason |-> "Not Found"],
      [code |-> 405, reason |-> "Method Not Allowed"],
      [code |-> 406, reason |-> "Not Acceptable"],
      [code |-> 407, reason |-> "Proxy Authentication Required"],
      [code |-> 408, reason |-> "Request Timeout"],
      [code |-> 409, reason |-> "Conflict"],
      [code |-> 410, reason |-> "Gone"],
      [code |-> 411, reason |-> "Length Required"],
      [code |-> 412, reason |-> "Precondition Failed"],
      [code |-> 413, reason |-> "Payload Too Large"],
      [code |-> 414, reason |-> "URI Too Long"],
      [code |-> 415, reason |-> "Unsupported Media Type"],
      [code |-> 416, reason |-> "Range Not Satisfiable"],
      [code |-> 417, reason |-> "Expectation Failed"],
      [code |-> 418, reason |-> "I'm a teapot"],
      [code |-> 421, reason |-> "Misdirected Request"],
      [code |-> 422, reason |-> "Unprocessable Content"],
      [code |-> 423, reason |-> "Locked"],
      [code |-> 424, reason |-> "Failed Dependency"],
      [code |-> 425, reason |-> "Too Early"],
      [code |-> 426, reason |-> "Upgrade Required"],
      [code |-> 428, reason |-> "Precondition Required"],
      [code |-> 429, reason |-> "Too Many Requests"],
      [code |-> 431, reason |-> "Request Header Fields Too Large"],
      [code |-> 451, reason |-> "Unavailable For Legal Reasons"],
      [code |-> 500, reason |-> "Internal Server Error"],
      [code |-> 501, reason |-> "Not Implemented"],
      [code |-> 502, reason |-> "Bad Gateway"],
      [code |-> 503, reason |-> "Service Unavailable"],
      [code |-> 504, reason |-> "Gateway Timeout"],
      [code |-> 505, reason |-> "HTTP Version Not Supported"],
      [code |-> 506, reason |-> "Variant Also Negotiates"],
      [code |-> 507, reason |-> "Insufficient Storage"],
      [code |-> 508, reason |-> "Loop Detected"],
      [code |-> 510, reason |-> "Not Extended"],
      [code |-> 511, reason |-> "Network Authentication Required"]>>

\* StatusCode::from_u16: the first entry of ALL with the code
from_u16(code) ==
    LET found == {i \in DOMAIN ALL : ALL[i].code = code}
    IN  IF found = {} THEN [some |-> FALSE, v |-> [code |-> 0, reason |-> ""]]
        ELSE [some |-> TRUE, v |-> ALL[CHOOSE i \in found : \A j \in found : i <= j]]

\* impl Into<StatusCode> for u16
into(code) ==
    IF from_u16(code).some THEN from_u16(code).v
    ELSE [code |-> code, reason |-> "Unknown"]

\* the status line of send_response and send_simple_response; the reason is one
\* unit of text
status_line(code) ==
    <<"H", "T", "T", "P", "/", "1", ".", "1", " ">> \o to_string(into(code).code)
    \o <<" ", into(code).reason>> \o CRLF

status(code) ==
    [content_type |-> TEXT_PLAIN, bytes |-> <<>>, status_code |-> code, headers |-> <<>>]

text(t) ==
    [content_type |-> TEXT_PLAIN, bytes |-> t, status_code |-> 200, headers |-> <<>>]

bytes(b) ==
    [content_type |-> APPLICATION_OCTET_STREAM, bytes |-> b, status_code |-> 200,
     headers |-> <<>>]

\* the handlers `|_req| status(n)` of the model, by name
StatusHandlers ==
    "status(7)" :> 7 @@ "status(99)" :> 99 @@ "status(100)" :> 100 @@ "status(204)" :> 204 @@ "status(299)" :> 299
    @@ "status(404)" :> 404 @@ "status(999)" :> 999 @@ "status(1000)" :> 1000 @@ "status(65535)" :> 65535

\* the handlers of the model: a fixed text, a fixed status, and the echo of the
\* request body as text or as bytes
callback(name, req) ==
    IF name = "hello" THEN text(<<"H", "i">>)
    ELSE IF name \in DOMAIN StatusHandlers THEN status(StatusHandlers[name])
    ELSE IF name = "echo_text" THEN text(req.body)
    ELSE IF req.body = <<>> THEN status(200) ELSE bytes(req.body)

Hdr(k, v, n) == [k |-> k, v |-> v, n |-> n]

\* one write_all of the serializer
W(part, code, hdrs, data, last) ==
    [part |-> part, status |-> code,
     line |-> IF part \in {"head", "full"} THEN status_line(code) ELSE <<>>,
     hdrs |-> hdrs, bytes |-> data, last |-> last, req |-> 0]

continue_response ==
    <<"H", "T", "T", "P", "/", "1", ".", "1", " ", "1", "0", "0", " ",
      "C", "o", "n", "t", "i", "n", "u", "e", "CR", "LF", "CR", "LF">>

S_accept_encoding == <<"a", "c", "c", "e", "p", "t", "-",
                       "e", "n", "c", "o", "d", "i", "n", "g">>
S_gzip == <<"g", "z", "i", "p">>

\* utils::gzip_compress: the gzip member around the data
gzip_compress(data) == <<"GZ_HEADER">> \o data \o <<"GZ_TRAILER">>

\* a faulty connection_close that compares without folding the case
connection_close_exact(headers) ==
    LET c == get_single(headers, S_connection)
    IN  c.some /\ c.v = S_close

connection_close(headers) ==
    LET c == get_single(headers, S_connection)
    IN  c.some /\ to_lowercase(c.v) = S_close

\* format!("{:X}", n)
RECURSIVE format_X(_)
format_X(n) ==
    LET UpperHex == <<"0", "1", "2", "3", "4", "5", "6", "7", "8", "9",
                      "A", "B", "C", "D", "E", "F">>
    IN  IF n < 16 THEN <<UpperHex[n + 1]>>
        ELSE format_X(n \div 16) \o <<UpperHex[(n % 16) + 1]>>

\* a faulty loop that writes all of the body as one chunk
chunk_writes_whole(data, start) ==
    IF start >= Len(data) THEN <<>>
    ELSE <<W("chunk_size", 0, <<>>, format_X(Len(data) - start) \o CRLF, FALSE),
           W("chunk_data", 0, <<>>, Slice(data, start, Len(data)), FALSE),
           W("chunk_crlf", 0, <<>>, CRLF, FALSE)>>

RECURSIVE chunk_writes(_, _)
chunk_writes(data, start) ==
    IF start >= Len(data) THEN <<>>
    ELSE LET end == Min(start + ResponseBufferSize, Len(data))
         IN  <<W("chunk_size", 0, <<>>, format_X(end - start) \o CRLF, FALSE),
               W("chunk_data", 0, <<>>, Slice(data, start, end), FALSE),
               W("chunk_crlf", 0, <<>>, CRLF, FALSE)>>
             \o chunk_writes(data, end)

\* a faulty serializer that chunks a body of exactly BUFFER_SIZE bytes
send_response_chunks_at_limit(headers, res) ==
    LET ae == get_single(headers, S_accept_encoding)
        gz == ae.some /\ contains(ae.v, S_gzip) /\ ~res.content_type.is_binary
        data == IF gz THEN gzip_compress(res.bytes) ELSE res.bytes
        hdrs ==
            (IF connection_close(headers) THEN <<Hdr("Connection", "close", 0)>> ELSE <<>>)
            \o (IF gz THEN <<Hdr("Content-Encoding", "gzip", 0)>> ELSE <<>>)
            \o <<Hdr("Content-Type", res.content_type.name, 0),
                 Hdr("Content-Length", "", Len(data))>>
            \o (IF Len(data) >= ResponseBufferSize
                THEN <<Hdr("Transfer-Encoding", "chunked", 0)>> ELSE <<>>)
            \o res.headers
    IN  IF Len(data) >= ResponseBufferSize
        THEN <<W("head", res.status_code, hdrs, <<>>, FALSE)>>
             \o chunk_writes(data, 0)
             \o <<W("chunk_end", 0, <<>>, <<"0">> \o CRLFCRLF, TRUE)>>
        ELSE <<W("full", res.status_code, hdrs, data, TRUE)>>

\* a faulty serializer that compresses whatever the content type
send_response_gzips_binary(headers, res) ==
    LET ae == get_single(headers, S_accept_encoding)
        gz == ae.some /\ contains(ae.v, S_gzip)
        data == IF gz THEN gzip_compress(res.bytes) ELSE res.bytes
        hdrs ==
            (IF connection_close(headers) THEN <<Hdr("Connection", "close", 0)>> ELSE <<>>)
            \o (IF gz THEN <<Hdr("Content-Encoding", "gzip", 0)>> ELSE <<>>)
            \o <<Hdr("Content-Type", res.content_type.name, 0),
                 Hdr("Content-Length", "", Len(data))>>
            \o (IF Len(data) > ResponseBufferSize
                THEN <<Hdr("Transfer-Encoding", "chunked", 0)>> ELSE <<>>)
            \o res.headers
    IN  IF Len(data) > ResponseBufferSize
        THEN <<W("head", res.status_code, hdrs, <<>>, FALSE)>>
             \o chunk_writes(data, 0)
             \o <<W("chunk_end", 0, <<>>, <<"0">> \o CRLFCRLF, TRUE)>>
        ELSE <<W("full", res.status_code, hdrs, data, TRUE)>>

\* send_response: the write_all calls it makes, in order
send_response(headers, res) ==
    LET ae == get_single(headers, S_accept_encoding)
        gz == ae.some /\ contains(ae.v, S_gzip) /\ ~res.content_type.is_binary
        data == IF gz THEN gzip_compress(res.bytes) ELSE res.bytes
        hdrs ==
            (IF connection_close(headers) THEN <<Hdr("Connection", "close", 0)>> ELSE <<>>)
            \o (IF gz THEN <<Hdr("Content-Encoding", "gzip", 0)>> ELSE <<>>)
            \o <<Hdr("Content-Type", res.content_type.name, 0),
                 Hdr("Content-Length", "", Len(data))>>
            \o (IF Len(data) > ResponseBufferSize
                THEN <<Hdr("Transfer-Encoding", "chunked", 0)>> ELSE <<>>)
            \o res.headers
    IN  IF Len(data) > ResponseBufferSize
        THEN <<W("head", res.status_code, hdrs, <<>>, FALSE)>>
             \o chunk_writes(data, 0)
             \o <<W("chunk_end", 0, <<>>, <<"0">> \o CRLFCRLF, TRUE)>>
        ELSE <<W("full", res.status_code, hdrs, data, TRUE)>>

send_simple_response(res) ==
    <<W("full", res.status_code, <<Hdr("Content-Length", "", Len(res.bytes))>>,
        res.bytes, TRUE)>>

\* the methods process_request names in an Allow header, sorted ascending
SortedMethods == <<"DELETE", "GET", "HEAD", "OPTIONS", "PATCH", "POST", "PUT">>

InSeq(s, x) == \E i \in DOMAIN s : s[i] = x

\* a faulty loop that passes over the routes registered for ALL
RECURSIVE allowed_methods_from_all_skipped(_, _, _)
allowed_methods_from_all_skipped(listeners, path, allowed_methods) ==
    IF listeners = <<>> THEN allowed_methods
    ELSE IF \/ ~path_matches(Head(listeners).path, path)
            \/ ~InSeq(SortedMethods, Head(listeners).method)
            \/ InSeq(allowed_methods, Head(listeners).method)
    THEN allowed_methods_from_all_skipped(Tail(listeners), path, allowed_methods)
    ELSE allowed_methods_from_all_skipped(Tail(listeners), path,
                                          Append(allowed_methods, Head(listeners).method))

\* process_request, OPTIONS: the loop over the callbacks
RECURSIVE allowed_methods_from(_, _, _)
allowed_methods_from(callbacks, path, allowed_methods) ==
    IF callbacks = <<>> THEN allowed_methods
    ELSE LET listener == Head(callbacks)
         IN  IF ~path_matches(listener.path, path)
             THEN allowed_methods_from(Tail(callbacks), path, allowed_methods)
             ELSE IF listener.method = "ALL"
             THEN <<"GET", "POST", "PUT", "DELETE", "PATCH", "OPTIONS", "HEAD">>
             ELSE IF ~InSeq(SortedMethods, listener.method)
                     \/ InSeq(allowed_methods, listener.method)
             THEN allowed_methods_from(Tail(callbacks), path, allowed_methods)
             ELSE allowed_methods_from(Tail(callbacks), path,
                                       Append(allowed_methods, listener.method))

\* a faulty loop that does not remember that a path matched
RECURSIVE process_request_loop_found_path_lost(_, _, _, _)
process_request_loop_found_path_lost(listeners, req, i, found_path) ==
    IF i > Len(listeners) THEN [sent |-> FALSE, found_path |-> FALSE, listener |-> 0]
    ELSE IF /\ path_matches(listeners[i].path, req.path)
            /\ method_matches(listeners[i].method, req.method)
    THEN [sent |-> TRUE, found_path |-> TRUE, listener |-> i]
    ELSE process_request_loop_found_path_lost(listeners, req, i + 1, found_path)

\* process_request: the loop over the callbacks of a request that is not OPTIONS,
\* up to the break: was a handler called (sent), which one, did a path match
RECURSIVE process_request_loop(_, _, _, _)
process_request_loop(listeners, req, i, found_path) ==
    IF i > Len(listeners)
    THEN [sent |-> FALSE, found_path |-> found_path, listener |-> 0]
    ELSE LET found == found_path \/ path_matches(listeners[i].path, req.path)
         IN  IF /\ path_matches(listeners[i].path, req.path)
                /\ method_matches(listeners[i].method, req.method)
             THEN [sent |-> TRUE, found_path |-> found, listener |-> i]
             ELSE process_request_loop(listeners, req, i + 1, found)

\* a faulty process_request that forgets that the handler's response was sent and
\* answers 405 after it
dispatch_sent_lost(callbacks, req0) ==
    LET req == [req0 EXCEPT !.path = rewrite_path(req0.path)]
        allowed == allowed_methods_from(callbacks, req.path, <<>>)
        with_options == IF InSeq(allowed, "OPTIONS") THEN allowed
                        ELSE Append(allowed, "OPTIONS")
        allow_header == SelectSeq(SortedMethods, LAMBDA m : InSeq(with_options, m))
        loop == process_request_loop(callbacks, req, 1, FALSE)
    IN  IF req.method = "OPTIONS"
        THEN IF allowed # <<>>
             THEN [handler |-> 0, path_params |-> <<>>,
                   writes |-> send_response(req.headers,
                       [status(200) EXCEPT !.headers = <<[k |-> "Allow", v |-> allow_header, n |-> 0]>>])]
             ELSE [handler |-> 0, path_params |-> <<>>,
                   writes |-> send_simple_response(status(404))]
        ELSE IF loop.sent
        THEN [handler |-> loop.listener,
              path_params |-> get_path_params(callbacks[loop.listener].path, req.path),
              writes |-> send_response(req.headers,
                                       callback(callbacks[loop.listener].callback, req))
                         \o send_simple_response(status(405))]
        ELSE IF ~loop.found_path
        THEN [handler |-> 0, path_params |-> <<>>,
              writes |-> send_simple_response(status(404))]
        ELSE [handler |-> 0, path_params |-> <<>>,
              writes |-> send_simple_response(status(405))]

\* process_request, Ok arm: the writes of the one response to a parsed request
dispatch(callbacks, req0) ==
    LET req == [req0 EXCEPT !.path = rewrite_path(req0.path)]
        allowed == allowed_methods_from(callbacks, req.path, <<>>)
        with_options == IF InSeq(allowed, "OPTIONS") THEN allowed
                        ELSE Append(allowed, "OPTIONS")
        allow_header == SelectSeq(SortedMethods, LAMBDA m : InSeq(with_options, m))
        loop == process_request_loop(callbacks, req, 1, FALSE)
    IN  IF req.method = "OPTIONS"
        THEN IF allowed # <<>>
             THEN [handler |-> 0, path_params |-> <<>>,
                   writes |-> send_response(req.headers,
                       [status(200) EXCEPT !.headers = <<[k |-> "Allow", v |-> allow_header, n |-> 0]>>])]
             ELSE [handler |-> 0, path_params |-> <<>>,
                   writes |-> send_simple_response(status(404))]
        ELSE IF loop.sent
        THEN [handler |-> loop.listener,
              path_params |-> get_path_params(callbacks[loop.listener].path, req.path),
              writes |-> send_response(req.headers,
                                       callback(callbacks[loop.listener].callback, req))]
        ELSE IF ~loop.found_path
        THEN [handler |-> 0, path_params |-> <<>>,
              writes |-> send_simple_response(status(404))]
        ELSE [handler |-> 0, path_params |-> <<>>,
              writes |-> send_simple_response(status(405))]

\* ------------------------------------------------------------- the client
\* the bodies a client sends after a header block
CLBodies == {<<>>, <<"x">>, <<"x", "y">>, <<"x", "y", "z">>}

ChunkLists == {<<<<"x">>>>, <<<<"x", "y">>>>, <<<<"x", "y", "z">>>>, <<<<"x">>, <<"y">>>>}

\* the chunked coding of the wire: <hex-size> CRLF <bytes> CRLF ... 0 CRLF CRLF
encode_chunked(chunks) ==
    Concat([i \in DOMAIN chunks |->
               <<Digits[Len(chunks[i]) + 1]>> \o CRLF \o chunks[i] \o CRLF])
    \o <<"0">> \o CRLFCRLF

Block(t) == <<t>> \o CRLFCRLF

Bodies(t) ==
    IF t = "H_cl2" THEN CLBodies
    ELSE IF t = "H_chunked" THEN {encode_chunked(c) : c \in ChunkLists}
    ELSE IF t \in {"H_exp_cl2", "H_big", "H_exp_bad", "H_both"} THEN {<<>>, <<"x", "y">>}
    ELSE IF t \in {"H_Exp_chunked", "H_te_gzip"} THEN {encode_chunked(<<<<"x">>>>)}
    ELSE {<<>>}

\* a header block with its body; a header block cut short; one that is too long
Messages ==
    UNION {{Block(t) \o b : b \in Bodies(t)} : t \in Tokens}
    \cup {<<"H_get">>, <<"H_close", CR, LF, CR>>}
    \cup {<<"H_get">> \o [i \in 1..HeaderMax |-> "x"]}

\* what the client sends once the first message is out, between two requests
LaterMessages ==
    {Block("H_get"), Block("H_close"), Block("H_exp_cl2") \o <<"x", "y">>}

\* ------------------------------------------------------------- one request
\* the inputs of process_request taken one request at a time: a route table and a
\* header block, the body (if any) still in the socket
\* how many routes a table of the model has at most
MaxRoutes == 2
\* how many header lines a generated header block has at most
MaxLines == 3

\* what get, post and all register
RouteSet ==
    [method : {"GET", "POST", "ALL"},
     path : {<<"/", "u", "/", ":", "i", "d">>, <<"/", "u", "/", "7">>},
     callback : {"hello"}]

RouteTables == UNION {[1..n -> RouteSet] : n \in 0..MaxRoutes}

\* a request line with its header lines, and the terminator
request_text(method, target, version, lines) ==
    MethodText[method] \o <<" ">> \o target \o <<" ">> \o VersionText[version]
    \o Concat([i \in DOMAIN lines |-> CRLF \o lines[i]])
    \o CRLFCRLF

RouterBlocks ==
    {request_text(m, p, "Http1_1", <<<<"H", "o", "s", "t", ":", " ", "x">>>>) :
        m \in {"GET", "POST", "PUT", "OPTIONS"},
        p \in {<<"/", "u", "/", "7">>, <<"/", "u", "/", "7", "/", "x">>, <<"/", "n", "o", "p", "e">>}}

\* header lines: a name in both cases, a name of the duplicatable set, the framing
\* headers with a length at and above request_body_max_size
ParserLines == {
    <<"H", "o", "s", "t", ":", " ", "x">>,
    <<"A", "C", "C", "E", "P", "T", ":", " ", "b">>,
    <<"C", "o", "n", "t", "e", "n", "t", "-", "L", "e", "n", "g", "t", "h", ":", " ">> \o to_string(BodyMax),
    <<"c", "o", "n", "t", "e", "n", "t", "-", "l", "e", "n", "g", "t", "h", ":", " ">> \o to_string(BodyMax + 1),
    <<"T", "r", "a", "n", "s", "f", "e", "r", "-", "E", "n", "c", "o", "d", "i", "n", "g", ":", " ", "g", "z", "i", "p">>,
    <<"E", "x", "p", "e", "c", "t", ":", " ", "1", "0", "0", "-", "C", "o", "n", "t", "i", "n", "u", "e">>}

ParserBlocks ==
    {request_text("GET", <<"/">>, v, lines) :
        v \in {"Http1_0", "Http1_1"},
        lines \in UNION {[1..n -> ParserLines] : n \in 0..MaxLines}}

\* the patterns and the paths the matcher is run on, one route and one request each
MatchPatterns == {
    <<"/">>,
    <<"/", "u", "/", "7">>,
    <<"/", "u", "/", ":", "i", "d">>,
    <<"/", ":", "a", "/", ":", "b">>,
    <<"/", ":", "a", "/", ":", "a">>,
    <<"/", "u", "/", ":">>,
    <<"/", "a", ":", "b">>,
    <<"/", "u", "/", ":", "i", "d", "/">>,
    <<":", "i", "d", "/", "7">>}

MatchPaths == {
    <<"/">>,
    <<"/", "u", "/", "7">>,
    <<"/", "u", "/", "8">>,
    <<"/", "v", "/", "7">>,
    <<"/", "u", "/", "7", "/", "x">>,
    <<"/", "u", "/", "7", "/">>,
    <<"/", "u", "/">>,
    <<"/", "u", "/", "/", "7">>,
    <<"/", "a", ":", "b">>,
    <<"u", "/", "7">>}

MatchBlocks ==
    {request_text("GET", p, "Http1_1", <<<<"H", "o", "s", "t", ":", " ", "x">>>>) :
        p \in MatchPaths}

\* ------------------------------------------------------------- the state
VARIABLES
    pc,            \* where the connection task stands
    conn,          \* "open", or how handle_connection ended: "ok", "err", "panic"
    sock,          \* the bytes the client has sent and the server has not read
    peer,          \* "open", or "closed" once the client has shut its side
    cancelled,     \* the cancellation receiver of the connection is ready
    rd,            \* the read primitive in progress (read_n or read_until)
    ret,           \* the result of the last primitive or of the body read
    hdr,           \* process_request: request (the header bytes)
    extra_bytes,   \* process_request: extra_body_bytes
    req,           \* the Request being built
    perr,          \* the RequestParsingError, "none" without one
    ck,            \* the locals of read_chunked
    w,             \* the writes in progress and where to go after them
    should_close,  \* what process_request returns
    out,           \* every write_all that succeeded, in order
    nsent,         \* how many messages the client has sent
    inreq,         \* a header block has been read and its request is in progress
    follow,        \* the bytes sent after the header terminator of that request
    reqno,         \* how many header reads have ended with a request or a 413
    callbacks,     \* the route table, in registration order
    called         \* the handlers invoked: for which request, the listener called
                   \* and the path_params it got

\* the server: the accept-loop task, the two channels of run, the connection tasks
VARIABLES
    mode,          \* config.shutdown_mode
    accept_pc,     \* where the accept-loop task stands
    user_chan,     \* (tx, rx): the messages queued, whether a send was made, and
                   \* whether the Sender was dropped
    cancel_chan,   \* (cancel_tx, cancel_rx): the messages queued, closed or not
    timer,         \* the grace timer of shutdown_server
    tasks          \* the connection tasks run_connection has spawned

connection_vars == <<pc, conn, sock, peer, cancelled, rd, ret, hdr, extra_bytes, req, perr,
                     ck, w, should_close, out, nsent, inreq, follow, reqno,
                     callbacks, called>>

server_vars == <<mode, accept_pc, user_chan, cancel_chan, timer, tasks>>

\* a multimap on its own: Map<DuplicateMap> under the calls of its users
VARIABLES
    map,           \* the entries, each a key with Single(value) or List(values)
    map_call       \* the last call made on the map, and whether it returned Ok

map_vars == <<map, map_call>>

vars == <<connection_vars, server_vars, map_vars>>

NoRead == [op |-> "none", size |-> 0, delim |-> <<>>, out |-> <<>>, k |-> "none"]
NoRet == [ok |-> TRUE, val |-> <<>>, extra |-> <<>>, err |-> "none"]
NoReq == [method |-> "None", http_version |-> "None", path |-> <<>>, headers |-> <<>>,
          body |-> <<>>, query_params |-> <<>>]
NoCk == [out |-> <<>>, extra_out |-> <<>>, size_bytes |-> <<>>, extra |-> <<>>,
         chunk_size |-> 0]
NoWrite == [q |-> <<>>, k |-> "none", onerr |-> "none"]

Ok(val, extra) == [ok |-> TRUE, val |-> val, extra |-> extra, err |-> "none"]
Err(e) == [ok |-> FALSE, val |-> <<>>, extra |-> <<>>, err |-> e]

Call(op, size, delim, k) == [op |-> op, size |-> size, delim |-> delim, out |-> <<>>, k |-> k]

Connections == 1..MaxConns

NoTask == [st |-> "none", served |-> 0, observed |-> FALSE, in_grace |-> FALSE]

NoCall == [op |-> "none", key |-> <<>>, value |-> <<>>, ok |-> TRUE]

\* Map::default()
MapInit == map = <<>> /\ map_call = NoCall

ServerInit ==
    /\ mode \in {"Immediate", "Graceful"}
    /\ accept_pc = "accepting"
    /\ user_chan = [msgs |-> 0, sent |-> FALSE, closed |-> FALSE]
    /\ cancel_chan = [msgs |-> 0, closed |-> FALSE]
    /\ timer = "off"
    /\ tasks = [c \in Connections |-> NoTask]

ConnectionInit ==
    /\ pc = "hc_loop" /\ conn = "open"
    /\ sock = <<>> /\ peer = "open" /\ cancelled = FALSE
    /\ rd = NoRead /\ ret = NoRet
    /\ hdr = <<>> /\ extra_bytes = <<>> /\ req = NoReq /\ perr = "none"
    /\ ck = NoCk /\ w = NoWrite /\ should_close = FALSE
    /\ out = <<>> /\ nsent = 0 /\ inreq = FALSE /\ follow = <<>> /\ reqno = 0
    /\ called = <<>>

\* one connection of a server with the default configuration's shutdown mode
Init == ConnectionInit /\ callbacks = Routes /\ ServerInit /\ MapInit /\ mode = "Graceful"

\* ------------------------------------------------------------- environment
ClientSend ==
    /\ conn = "open" /\ peer = "open" /\ sock = <<>> /\ nsent < MaxSends
    /\ \E m \in (IF nsent = 0 THEN Messages ELSE LaterMessages) :
        /\ sock' = m
        /\ follow' = IF inreq THEN follow \o m ELSE follow
    /\ nsent = 0 \/ ~inreq
    /\ nsent' = nsent + 1
    /\ UNCHANGED <<map_vars, server_vars, callbacks, called>>
    /\ UNCHANGED <<pc, conn, peer, cancelled, rd, ret, hdr, extra_bytes, req, perr, ck, w,
                   should_close, out, inreq, reqno>>

\* the client shuts its side; what the server has not read by then never arrives
ClientClose ==
    /\ conn = "open" /\ peer = "open"
    /\ peer' = "closed"
    /\ sock' = <<>>
    /\ follow' = IF inreq THEN SubSeq(follow, 1, Len(follow) - Len(sock)) ELSE follow
    /\ UNCHANGED <<map_vars, server_vars, callbacks, called>>
    /\ UNCHANGED <<pc, conn, cancelled, rd, ret, hdr, extra_bytes, req, perr, ck, w,
                   should_close, out, nsent, inreq, reqno>>

\* the accept loop's shutdown reaches the connection's cancellation receiver
Cancel ==
    /\ conn = "open" /\ ~cancelled
    /\ cancelled' = TRUE
    /\ UNCHANGED <<map_vars, server_vars, callbacks, called>>
    /\ UNCHANGED <<pc, conn, sock, peer, rd, ret, hdr, extra_bytes, req, perr, ck, w,
                   should_close, out, nsent, inreq, follow, reqno>>

\* ------------------------------------------------------------- the reader
\* the length of the buffer read_n and read_until hand to read_buffer
buffer_len(r) ==
    IF r.size - Len(r.out) < BufferSize THEN r.size - Len(r.out) ELSE BufferSize

\* read_n after read_buffer returned Ok(Len(b))
read_n(r, b) ==
    IF b = <<>> THEN [done |-> TRUE, ret |-> Ok(r.out, <<>>)]
    ELSE IF Len(r.out \o b) >= r.size
    THEN [done |-> TRUE, ret |-> Ok(r.out \o b, <<>>)]
    ELSE [done |-> FALSE, out |-> r.out \o b]

\* a faulty read_until without the size limit
read_until_unbounded(r, b) ==
    LET output_buffer == r.out \o b
        index == position(output_buffer, r.delim)
    IN  IF b = <<>> THEN [done |-> TRUE, ret |-> Ok(r.out, <<>>)]
        ELSE IF index # -1
        THEN [done |-> TRUE,
              ret |-> Ok(Slice(output_buffer, 0, index + Len(r.delim)),
                         Slice(output_buffer, index + Len(r.delim), Len(output_buffer)))]
        ELSE [done |-> FALSE, out |-> output_buffer]

\* a faulty read_until that tests the size limit before it looks for the delimiter
read_until_size_first(r, b) ==
    LET output_buffer == r.out \o b
        index == position(output_buffer, r.delim)
    IN  IF b = <<>> THEN [done |-> TRUE, ret |-> Ok(r.out, <<>>)]
        ELSE IF Len(output_buffer) >= r.size
        THEN [done |-> TRUE, ret |-> Err("MaxSizeExceeded")]
        ELSE IF index # -1
        THEN [done |-> TRUE,
              ret |-> Ok(Slice(output_buffer, 0, index + Len(r.delim)),
                         Slice(output_buffer, index + Len(r.delim), Len(output_buffer)))]
        ELSE [done |-> FALSE, out |-> output_buffer]

\* read_until after read_buffer returned Ok(Len(b))
read_until(r, b) ==
    LET output_buffer == r.out \o b
        index == position(output_buffer, r.delim)
    IN  IF b = <<>> THEN [done |-> TRUE, ret |-> Ok(r.out, <<>>)]
        ELSE IF index # -1
        THEN [done |-> TRUE,
              ret |-> Ok(Slice(output_buffer, 0, index + Len(r.delim)),
                         Slice(output_buffer, index + Len(r.delim), Len(output_buffer)))]
        ELSE IF Len(output_buffer) >= r.size
        THEN [done |-> TRUE, ret |-> Err("MaxSizeExceeded")]
        ELSE [done |-> FALSE, out |-> output_buffer]

Resume(b) ==
    LET step == IF rd.op = "read_n" THEN read_n(rd, b) ELSE read_until(rd, b)
    IN  IF step.done
        THEN ret' = step.ret /\ pc' = rd.k /\ rd' = NoRead
        ELSE rd' = [rd EXCEPT !.out = step.out] /\ UNCHANGED <<ret, pc>>

Fail(e) == ret' = Err(e) /\ pc' = rd.k /\ rd' = NoRead

\* read_buffer: the socket's read wins the select with n bytes
read_buffer_data ==
    /\ pc = "reading" /\ conn = "open"
    /\ \E n \in 1..Min(buffer_len(rd), Len(sock)) :
        /\ Resume(SubSeq(sock, 1, n))
        /\ sock' = SubSeq(sock, n + 1, Len(sock))
    /\ UNCHANGED <<map_vars, server_vars, callbacks, called>>
    /\ UNCHANGED <<conn, peer, cancelled, hdr, extra_bytes, req, perr, ck, w,
                   should_close, out, nsent, inreq, follow, reqno>>

\* read_buffer: Ok(0), the end of the stream or an empty buffer
read_buffer_eof ==
    /\ pc = "reading" /\ conn = "open"
    /\ buffer_len(rd) = 0 \/ (sock = <<>> /\ peer = "closed")
    /\ Resume(<<>>)
    /\ UNCHANGED <<map_vars, server_vars, callbacks, called>>
    /\ UNCHANGED <<conn, sock, peer, cancelled, hdr, extra_bytes, req, perr, ck, w,
                   should_close, out, nsent, inreq, follow, reqno>>

\* read_buffer: the read_timeout timer wins the select
read_buffer_timeout ==
    /\ pc = "reading" /\ conn = "open"
    /\ buffer_len(rd) > 0 /\ peer = "open"
    /\ Fail("Timeout")
    /\ UNCHANGED <<map_vars, server_vars, callbacks, called>>
    /\ UNCHANGED <<conn, sock, peer, cancelled, hdr, extra_bytes, req, perr, ck, w,
                   should_close, out, nsent, inreq, follow, reqno>>

\* read_buffer: the cancellation receiver wins the select
read_buffer_cancelled ==
    /\ pc = "reading" /\ conn = "open"
    /\ cancelled
    /\ Fail("Cancellation")
    /\ UNCHANGED <<map_vars, server_vars, callbacks, called>>
    /\ UNCHANGED <<conn, sock, peer, cancelled, hdr, extra_bytes, req, perr, ck, w,
                   should_close, out, nsent, inreq, follow, reqno>>

\* read_buffer: the socket's read fails
read_buffer_io_error ==
    /\ pc = "reading" /\ conn = "open"
    /\ buffer_len(rd) > 0
    /\ Fail("IoError")
    /\ UNCHANGED <<map_vars, server_vars, callbacks, called>>
    /\ UNCHANGED <<conn, sock, peer, cancelled, hdr, extra_bytes, req, perr, ck, w,
                   should_close, out, nsent, inreq, follow, reqno>>

\* ------------------------------------------------------------- the writer
StartWrite(q, k, onerr) == w' = [q |-> q, k |-> k, onerr |-> onerr] /\ pc' = "writing"

\* a faulty writer that reports a response as sent after its first write
write_all_ok_first_only ==
    /\ pc = "writing" /\ conn = "open"
    /\ out' = Append(out, [Head(w.q) EXCEPT !.req = reqno])
    /\ pc' = w.k /\ w' = NoWrite
    /\ UNCHANGED <<map_vars, server_vars, callbacks, called>>
    /\ UNCHANGED <<conn, sock, peer, cancelled, rd, ret, hdr, extra_bytes, req, perr, ck,
                   should_close, nsent, inreq, follow, reqno>>

\* write_all: the socket's write_all wins the select
write_all_ok ==
    /\ pc = "writing" /\ conn = "open"
    /\ out' = Append(out, [Head(w.q) EXCEPT !.req = reqno])
    /\ IF Len(w.q) = 1
       THEN pc' = w.k /\ w' = NoWrite
       ELSE w' = [w EXCEPT !.q = Tail(@)] /\ UNCHANGED pc
    /\ UNCHANGED <<map_vars, server_vars, callbacks, called>>
    /\ UNCHANGED <<conn, sock, peer, cancelled, rd, ret, hdr, extra_bytes, req, perr, ck,
                   should_close, nsent, inreq, follow, reqno>>

\* write_all: the write fails, times out or is cancelled; every caller turns the
\* WriteError into an io::Error
write_all_err ==
    /\ pc = "writing" /\ conn = "open"
    /\ \E e \in {"IoError", "Timeout"} \cup (IF cancelled THEN {"Cancellation"} ELSE {}) :
        IF w.onerr = "parse"
        THEN perr' = "IoError" /\ pc' = "pr_match" /\ UNCHANGED conn
        ELSE conn' = "err" /\ pc' = "end" /\ UNCHANGED perr
    /\ w' = NoWrite
    /\ UNCHANGED <<map_vars, server_vars, callbacks, called>>
    /\ UNCHANGED <<sock, peer, cancelled, rd, ret, hdr, extra_bytes, req, ck,
                   should_close, out, nsent, inreq, follow, reqno>>

\* ------------------------------------------------------------- the driver
\* handle_connection: the top of the loop, the read of a header block
handle_connection ==
    /\ pc = "hc_loop" /\ conn = "open"
    /\ rd' = Call("read_until", HeaderMax, CRLFCRLF, "hc_match")
    /\ pc' = "reading"
    /\ UNCHANGED <<map_vars, server_vars, callbacks, called>>
    /\ UNCHANGED <<conn, sock, peer, cancelled, ret, hdr, extra_bytes, req, perr, ck, w,
                   should_close, out, nsent, inreq, follow, reqno>>

\* a faulty match that lacks the arm for a block without terminator
handle_connection_arm_unguarded(r) ==
    IF r.ok THEN "process_request"
    ELSE IF r.err \in {"Cancellation", "Timeout", "UnexpectedError"} THEN "Ok"
    ELSE IF r.err = "MaxSizeExceeded" THEN "413"
    ELSE "Err(e)"

\* handle_connection: the arm of the match that what read_until returned selects
handle_connection_arm(r) ==
    IF r.ok /\ ~bytes_contain(r.val, CRLFCRLF) THEN "Err(InvalidData)"
    ELSE IF r.ok /\ r.val = <<>> THEN "Ok"
    ELSE IF r.ok THEN "process_request"
    ELSE IF r.err \in {"Cancellation", "Timeout", "UnexpectedError"} THEN "Ok"
    ELSE IF r.err = "MaxSizeExceeded" THEN "413"
    ELSE "Err(e)"

\* handle_connection: the match on what read_until returned
handle_connection_match ==
    /\ pc = "hc_match" /\ conn = "open"
    /\ LET arm == handle_connection_arm(ret)
       IN  CASE arm = "process_request" ->
                    /\ hdr' = ret.val /\ extra_bytes' = ret.extra
                    /\ pc' = "parse_request"
                    /\ inreq' = TRUE /\ follow' = ret.extra \o sock /\ reqno' = reqno + 1
                    /\ ret' = NoRet
                    /\ UNCHANGED <<conn, w>>
             [] arm = "413" ->
                    /\ StartWrite(send_simple_response(status(413)), "hc_loop", "close")
                    /\ reqno' = reqno + 1 /\ ret' = NoRet
                    /\ UNCHANGED <<conn, hdr, extra_bytes, inreq, follow>>
             [] arm = "Ok" ->
                    /\ conn' = "ok" /\ pc' = "end"
                    /\ UNCHANGED <<ret, hdr, extra_bytes, w, inreq, follow, reqno>>
             [] arm \in {"Err(InvalidData)", "Err(e)"} ->
                    /\ conn' = "err" /\ pc' = "end"
                    /\ UNCHANGED <<ret, hdr, extra_bytes, w, inreq, follow, reqno>>
    /\ UNCHANGED <<map_vars, server_vars, callbacks, called>>
    /\ UNCHANGED <<sock, peer, cancelled, rd, req, perr, ck, should_close, out, nsent>>

\* parse_request up to the interim response
parse_request ==
    /\ pc = "parse_request" /\ conn = "open"
    /\ LET head == parse_request_head(hdr)
       IN  IF ~head.ok
           THEN perr' = head.err /\ pc' = "pr_match" /\ UNCHANGED <<req, w>>
           ELSE /\ req' = [method |-> head.method, http_version |-> head.http_version,
                           path |-> head.path, headers |-> head.headers, body |-> <<>>,
                           query_params |-> parse_query_params(head.path)]
                /\ UNCHANGED perr
                /\ IF head.needs_continue
                   THEN StartWrite(<<W("interim", 100, <<>>, continue_response, FALSE)>>,
                                   "parse_body", "parse")
                   ELSE pc' = "parse_body" /\ UNCHANGED w
    /\ UNCHANGED <<map_vars, server_vars, callbacks, called>>
    /\ UNCHANGED <<conn, sock, peer, cancelled, rd, ret, hdr, extra_bytes, ck,
                   should_close, out, nsent, inreq, follow, reqno>>

\* parse_body and parse_body_from_content_length up to their first read
parse_body ==
    /\ pc = "parse_body" /\ conn = "open"
    /\ LET cl == get_require_single(req.headers, S_content_length)
           te == get_require_single(req.headers, S_transfer_encoding)
           content_length == from_str_radix(cl.v, 10)
       IN  IF cl.ok /\ cl.some
           THEN IF content_length = -1
                THEN perr' = "InvalidHeader" /\ pc' = "pr_match" /\ UNCHANGED <<rd, ret, ck>>
                ELSE IF payload_too_large(content_length)
                THEN perr' = "PayloadTooLarge" /\ pc' = "pr_match"
                     /\ UNCHANGED <<rd, ret, ck>>
                ELSE IF Len(extra_bytes) < content_length
                THEN /\ rd' = Call("read_n", content_length - Len(extra_bytes), <<>>,
                                   "pb_cl_ret")
                     /\ pc' = "reading" /\ UNCHANGED <<perr, ret, ck>>
                ELSE ret' = Ok(extra_bytes, <<>>) /\ pc' = "pb_ret"
                     /\ UNCHANGED <<perr, rd, ck>>
           ELSE IF te.ok /\ te.some
           THEN IF te.v # S_chunked
                THEN perr' = "InvalidHeader" /\ pc' = "pr_match" /\ UNCHANGED <<rd, ret, ck>>
                ELSE /\ ck' = [NoCk EXCEPT !.extra_out = extra_bytes]
                     /\ pc' = "ck_loop" /\ UNCHANGED <<perr, rd, ret>>
           ELSE ret' = Ok(<<>>, <<>>) /\ pc' = "pb_ret" /\ UNCHANGED <<perr, rd, ck>>
    /\ UNCHANGED <<map_vars, server_vars, callbacks, called>>
    /\ UNCHANGED <<conn, sock, peer, cancelled, hdr, extra_bytes, req, w,
                   should_close, out, nsent, inreq, follow, reqno>>

\* parse_body_from_content_length after read_n
parse_body_from_content_length ==
    /\ pc = "pb_cl_ret" /\ conn = "open"
    /\ ret' = IF ret.ok THEN Ok(extra_bytes \o ret.val, <<>>) ELSE ret
    /\ pc' = "pb_ret"
    /\ UNCHANGED <<map_vars, server_vars, callbacks, called>>
    /\ UNCHANGED <<conn, sock, peer, cancelled, rd, hdr, extra_bytes, req, perr, ck, w,
                   should_close, out, nsent, inreq, follow, reqno>>

\* parse_body: the match on the body read, and the end of parse_request
parse_body_match ==
    /\ pc = "pb_ret" /\ conn = "open"
    /\ IF ret.ok
       THEN req' = [req EXCEPT !.body = ret.val] /\ pc' = "dispatch" /\ UNCHANGED perr
       ELSE perr' = map_read_error(ret.err) /\ pc' = "pr_match" /\ UNCHANGED req
    /\ ret' = NoRet
    /\ UNCHANGED <<map_vars, server_vars, callbacks, called>>
    /\ UNCHANGED <<conn, sock, peer, cancelled, rd, hdr, extra_bytes, ck, w,
                   should_close, out, nsent, inreq, follow, reqno>>

\* process_request, Ok(req): the routing and the response
process_request ==
    /\ pc = "dispatch" /\ conn = "open"
    /\ LET d == dispatch(callbacks, req)
       IN  /\ StartWrite(d.writes, "hc_ret", "close")
           /\ called' = IF d.handler = 0 THEN called
                        ELSE Append(called, [req |-> reqno, listener |-> d.handler,
                                             path_params |-> d.path_params])
    /\ should_close' = connection_close(req.headers)
    /\ UNCHANGED <<map_vars, server_vars, callbacks>>
    /\ UNCHANGED <<conn, sock, peer, cancelled, rd, ret, hdr, extra_bytes, req, perr, ck,
                   out, nsent, inreq, follow, reqno>>

\* a faulty mapping that answers PayloadTooLarge like the other rejections
error_action_all_400(e) ==
    CASE e \in {"InvalidBody", "InvalidHeader", "InvalidRequest", "UnhandledRequest",
                "PayloadTooLarge"} ->
            [respond |-> 400, result |-> "Ok(false)"]
      [] e \in {"Cancellation", "Timeout", "UnexpectedError"} ->
            [respond |-> 0, result |-> "Ok(true)"]
      [] e = "IoError" -> [respond |-> 0, result |-> "Err"]

\* process_request, Err(e): what each RequestParsingError leads to
error_action(e) ==
    CASE e \in {"InvalidBody", "InvalidHeader", "InvalidRequest", "UnhandledRequest"} ->
            [respond |-> 400, result |-> "Ok(false)"]
      [] e = "PayloadTooLarge" -> [respond |-> 413, result |-> "Ok(false)"]
      [] e \in {"Cancellation", "Timeout", "UnexpectedError"} ->
            [respond |-> 0, result |-> "Ok(true)"]
      [] e = "IoError" -> [respond |-> 0, result |-> "Err"]

process_request_error ==
    /\ pc = "pr_match" /\ conn = "open"
    /\ LET a == error_action(perr)
       IN  IF a.respond # 0
           THEN /\ StartWrite(send_simple_response(status(a.respond)), "hc_ret", "close")
                /\ should_close' = FALSE /\ UNCHANGED conn
           ELSE IF a.result = "Ok(true)"
           THEN should_close' = TRUE /\ pc' = "hc_ret" /\ UNCHANGED <<conn, w>>
           ELSE conn' = "err" /\ pc' = "end" /\ UNCHANGED <<should_close, w>>
    /\ UNCHANGED <<map_vars, server_vars, callbacks, called>>
    /\ UNCHANGED <<sock, peer, cancelled, rd, ret, hdr, extra_bytes, req, perr, ck,
                   out, nsent, inreq, follow, reqno>>

\* handle_connection: process_request returned Ok(should_close)
handle_connection_next ==
    /\ pc = "hc_ret" /\ conn = "open"
    /\ IF should_close
       THEN /\ conn' = "ok" /\ pc' = "end"
            /\ UNCHANGED <<hdr, extra_bytes, req, perr, should_close, inreq, follow>>
       ELSE /\ pc' = "hc_loop" /\ UNCHANGED conn
            /\ hdr' = <<>> /\ extra_bytes' = <<>> /\ req' = NoReq /\ perr' = "none"
            /\ should_close' = FALSE /\ inreq' = FALSE /\ follow' = <<>>
    /\ UNCHANGED <<map_vars, server_vars, callbacks, called>>
    /\ UNCHANGED <<sock, peer, cancelled, rd, ret, ck, w, out, nsent, reqno>>

\* ------------------------------------------------------------- read_chunked
Return(result) == ret' = result /\ pc' = "pb_ret" /\ ck' = NoCk

Panic == conn' = "panic" /\ pc' = "end"

\* the top of the loop: the size check and the choice of where the size line comes from
read_chunked_loop ==
    /\ pc = "ck_loop" /\ conn = "open"
    /\ IF Len(ck.out) >= BodyMax
       THEN pc' = "ck_end" /\ UNCHANGED <<ck, rd>>
       ELSE IF ck.extra_out # <<>>
       THEN /\ ck' = [ck EXCEPT !.size_bytes = <<>>, !.extra = <<>>]
            /\ pc' = "ck_while" /\ UNCHANGED rd
       ELSE /\ ck' = [ck EXCEPT !.size_bytes = <<>>, !.extra = <<>>]
            /\ rd' = Call("read_until", BodyMax - Len(ck.out), CRLF, "ck_until_ret")
            /\ pc' = "reading"
    /\ UNCHANGED <<map_vars, server_vars, callbacks, called>>
    /\ UNCHANGED <<conn, sock, peer, cancelled, ret, hdr, extra_bytes, req, perr, w,
                   should_close, out, nsent, inreq, follow, reqno>>

\* the carry-over holds no size line yet: read needed_size more bytes; else split it
read_chunked_while ==
    /\ pc = "ck_while" /\ conn = "open"
    /\ IF ~bytes_contain(ck.extra_out, CRLF)
       THEN IF Len(ck.out) + needed_size + Len(ck.extra_out) > BodyMax
            THEN Return(Err("MaxSizeExceeded")) /\ UNCHANGED rd
            ELSE /\ rd' = Call("read_n", needed_size, <<>>, "ck_need_ret")
                 /\ pc' = "reading" /\ UNCHANGED <<ck, ret>>
       ELSE LET index == position(ck.extra_out, CRLF) + Len(CRLF)
            IN  /\ ck' = [ck EXCEPT !.size_bytes = Slice(ck.extra_out, 0, index),
                                    !.extra = Slice(ck.extra_out, index, Len(ck.extra_out)),
                                    !.extra_out = <<>>]
                /\ pc' = "ck_size" /\ UNCHANGED <<rd, ret>>
    /\ UNCHANGED <<map_vars, server_vars, callbacks, called>>
    /\ UNCHANGED <<conn, sock, peer, cancelled, hdr, extra_bytes, req, perr, w,
                   should_close, out, nsent, inreq, follow, reqno>>

read_chunked_need ==
    /\ pc = "ck_need_ret" /\ conn = "open"
    /\ IF ret.ok
       THEN /\ ck' = [ck EXCEPT !.extra_out = @ \o ret.val]
            /\ ret' = NoRet /\ pc' = "ck_while"
       ELSE Return(ret)
    /\ UNCHANGED <<map_vars, server_vars, callbacks, called>>
    /\ UNCHANGED <<conn, sock, peer, cancelled, rd, hdr, extra_bytes, req, perr, w,
                   should_close, out, nsent, inreq, follow, reqno>>

read_chunked_until ==
    /\ pc = "ck_until_ret" /\ conn = "open"
    /\ IF ret.ok
       THEN /\ ck' = [ck EXCEPT !.size_bytes = ret.val, !.extra = ret.extra]
            /\ ret' = NoRet /\ pc' = "ck_size"
       ELSE Return(ret)
    /\ UNCHANGED <<map_vars, server_vars, callbacks, called>>
    /\ UNCHANGED <<conn, sock, peer, cancelled, rd, hdr, extra_bytes, req, perr, w,
                   should_close, out, nsent, inreq, follow, reqno>>

\* the size line is parsed and the chunk is taken from what was read with it
read_chunked_size ==
    /\ pc = "ck_size" /\ conn = "open"
    /\ IF Len(ck.size_bytes) < Len(CRLF)
       THEN Panic /\ UNCHANGED <<ck, rd, ret>>
       ELSE
       LET chunk_size_str == Expand(Slice(ck.size_bytes, 0, Len(ck.size_bytes) - Len(CRLF)))
           parsed == from_str_radix(trim(chunk_size_str), 16)
           chunk_size == IF parsed = -1 THEN 0 ELSE parsed
           already_read == Len(ck.extra)
       IN  IF chunk_size = 0
           THEN pc' = "ck_end" /\ UNCHANGED <<conn, ck, rd, ret>>
           ELSE IF Len(ck.out) + chunk_size > BodyMax
           THEN IF BodyMax - Len(ck.out) > Len(ck.extra)
                THEN Panic /\ UNCHANGED <<ck, rd, ret>>
                ELSE Return(Err("MaxSizeExceeded")) /\ UNCHANGED <<conn, rd>>
           ELSE IF already_read >= chunk_size + Len(CRLF)
           THEN /\ ck' = [ck EXCEPT
                            !.out = @ \o Slice(ck.extra, 0, chunk_size),
                            !.extra_out = Slice(ck.extra, chunk_size + Len(CRLF),
                                                Len(ck.extra)),
                            !.size_bytes = <<>>, !.extra = <<>>]
                /\ pc' = "ck_loop" /\ UNCHANGED <<conn, rd, ret>>
           ELSE /\ ck' = [ck EXCEPT !.out = @ \o ck.extra, !.chunk_size = chunk_size]
                /\ rd' = Call("read_n", (chunk_size + Len(CRLF)) - already_read, <<>>,
                              "ck_data_ret")
                /\ pc' = "reading" /\ UNCHANGED <<conn, ret>>
    /\ UNCHANGED <<map_vars, server_vars, callbacks, called>>
    /\ UNCHANGED <<sock, peer, cancelled, hdr, extra_bytes, req, perr, w,
                   should_close, out, nsent, inreq, follow, reqno>>

\* the rest of the chunk has been read
read_chunked_data ==
    /\ pc = "ck_data_ret" /\ conn = "open"
    /\ IF ~ret.ok THEN Return(ret) /\ UNCHANGED conn
       ELSE IF ck.chunk_size > Len(ret.val) THEN Panic /\ UNCHANGED <<ck, ret>>
       ELSE /\ ck' = [ck EXCEPT !.out = @ \o Slice(ret.val, 0, ck.chunk_size),
                                !.size_bytes = <<>>, !.extra = <<>>, !.chunk_size = 0]
            /\ ret' = NoRet /\ pc' = "ck_loop" /\ UNCHANGED conn
    /\ UNCHANGED <<map_vars, server_vars, callbacks, called>>
    /\ UNCHANGED <<sock, peer, cancelled, rd, hdr, extra_bytes, req, perr, w,
                   should_close, out, nsent, inreq, follow, reqno>>

\* after the loop
read_chunked_end ==
    /\ pc = "ck_end" /\ conn = "open"
    /\ IF Len(ck.out) >= BodyMax THEN Return(Err("MaxSizeExceeded"))
       ELSE Return(Ok(ck.out, <<>>))
    /\ UNCHANGED <<map_vars, server_vars, callbacks, called>>
    /\ UNCHANGED <<conn, sock, peer, cancelled, rd, hdr, extra_bytes, req, perr, w,
                   should_close, out, nsent, inreq, follow, reqno>>

\* ------------------------------------------------------------- the connection
Next ==
    \/ ClientSend \/ ClientClose \/ Cancel
    \/ read_buffer_data \/ read_buffer_eof \/ read_buffer_timeout
    \/ read_buffer_cancelled \/ read_buffer_io_error
    \/ write_all_ok \/ write_all_err
    \/ handle_connection \/ handle_connection_match \/ handle_connection_next
    \/ parse_request \/ parse_body \/ parse_body_from_content_length \/ parse_body_match
    \/ process_request \/ process_request_error
    \/ read_chunked_loop \/ read_chunked_while \/ read_chunked_need \/ read_chunked_until
    \/ read_chunked_size \/ read_chunked_data \/ read_chunked_end

Spec == Init /\ [][Next]_vars

\* ------------------------------------------------------------- one request
\* process_request on its own: handle_connection has just read a header block and
\* hands it on; the peer stays and no shutdown is under way
InitProcessRequest ==
    /\ ServerInit /\ MapInit /\ mode = "Graceful"
    /\ pc = "parse_request" /\ conn = "open" /\ peer = "open" /\ cancelled = FALSE
    /\ rd = NoRead /\ ret = NoRet /\ extra_bytes = <<>> /\ req = NoReq /\ perr = "none"
    /\ ck = NoCk /\ w = NoWrite /\ should_close = FALSE
    /\ out = <<>> /\ nsent = 1 /\ inreq = TRUE /\ reqno = 1 /\ called = <<>>
    /\ \/ /\ callbacks \in RouteTables /\ hdr \in RouterBlocks
          /\ sock = <<>> /\ follow = <<>>
       \/ /\ \E p \in MatchPatterns :
                callbacks = <<[method |-> "GET", path |-> p, callback |-> "hello"]>>
          /\ hdr \in MatchBlocks
          /\ sock = <<>> /\ follow = <<>>
       \/ /\ callbacks = Routes /\ hdr \in ParserBlocks
          /\ sock = [i \in 1..BodyMax |-> "x"] /\ follow = sock

NextProcessRequest ==
    \/ parse_request \/ parse_body \/ parse_body_from_content_length \/ parse_body_match
    \/ process_request \/ process_request_error \/ handle_connection_next
    \/ read_buffer_data \/ read_buffer_timeout \/ read_buffer_io_error
    \/ write_all_ok \/ write_all_err

SpecProcessRequest == InitProcessRequest /\ [][NextProcessRequest]_vars

\* ------------------------------------------------------------- the query string
\* how many pieces a query string of the model has at most
MaxPieces == 3

\* the pieces between the `&` of a query string
QueryPieces == {
    <<>>,
    <<"a">>,
    <<"a", "=">>,
    <<"a", "=", "1">>,
    <<"a", "=", "2">>,
    <<"b", "=", "1">>,
    <<"=", "1">>,
    <<"a", "=", "1", "=", "2">>,
    <<"b", "?">>}

\* targets with a query string of up to MaxPieces pieces, targets without `?`, and
\* targets in absolute form beside their origin form
QueryTargets ==
    {<<"/", "p", "?">> \o join(ps, <<"&">>) :
        ps \in UNION {[1..n -> QueryPieces] : n \in 1..MaxPieces}}
    \cup {<<"/", "p">>, <<"/">>, <<"/", "a", "=", "1", "&", "b", "=", "2">>, <<"?">>}
    \cup {<<"/", "u", "/", "7">>,
          <<"/", "u", "/", "7", "?", "a", "=", "1">>,
          <<"h", "t", "t", "p", ":", "/", "/", "x", "/", "u", "/", "7">>,
          <<"h", "t", "t", "p", ":", "/", "/", "x", "/">>,
          <<"h", "t", "t", "p", ":", "/", "/", "x", "/", "u", "/", "7", "?", "a", "=", "1">>}

\* the routes of the query runs: those of the server and the literal route /p
QueryRoutes ==
    Append(Routes, [method |-> "GET", path |-> <<"/", "p">>, callback |-> "hello"])

QueryBlocks ==
    {request_text("GET", t, "Http1_1", <<<<"H", "o", "s", "t", ":", " ", "x">>>>) : t \in QueryTargets}

\* parse_request on a request line with a query string
InitQuery ==
    /\ ServerInit /\ MapInit /\ mode = "Graceful"
    /\ pc = "parse_request" /\ conn = "open" /\ peer = "open" /\ cancelled = FALSE
    /\ rd = NoRead /\ ret = NoRet /\ extra_bytes = <<>> /\ req = NoReq /\ perr = "none"
    /\ ck = NoCk /\ w = NoWrite /\ should_close = FALSE
    /\ out = <<>> /\ nsent = 1 /\ inreq = TRUE /\ reqno = 1 /\ called = <<>>
    /\ callbacks = QueryRoutes /\ hdr \in QueryBlocks
    /\ sock = <<>> /\ follow = <<>>

NextQuery ==
    \/ parse_request \/ parse_body \/ parse_body_match
    \/ process_request \/ handle_connection_next
    \/ write_all_ok \/ write_all_err

SpecQuery == InitQuery /\ [][NextQuery]_vars

\* ------------------------------------------------------------- the multimap
\* how many values a multimap of the model holds at most
MaxMapValues == 4

MapKeys == {<<"a">>, <<"b">>}
MapValues == {<<"1">>, <<"2">>}

\* how many values the map holds
RECURSIVE Map_len(_)
Map_len(m) == IF m = <<>> THEN 0 ELSE Len(Head(m).vals) + Map_len(Tail(m))

\* a call of Map<DuplicateMap>::add
Map_add_call ==
    /\ Map_len(map) < MaxMapValues
    /\ \E key \in MapKeys, value \in MapValues :
        /\ map' = Map_add(map, key, value)
        /\ map_call' = [op |-> "add", key |-> key, value |-> value, ok |-> TRUE]
    /\ UNCHANGED <<connection_vars, server_vars>>

\* a call of Map<DuplicateMap>::add_require_single
Map_add_require_single_call ==
    /\ Map_len(map) < MaxMapValues
    /\ \E key \in MapKeys, value \in MapValues :
        LET r == Map_add_require_single(map, key, value)
        IN  /\ map' = r.map
            /\ map_call' = [op |-> "add_require_single", key |-> key, value |-> value,
                            ok |-> r.ok]
    /\ UNCHANGED <<connection_vars, server_vars>>

InitMap == ConnectionInit /\ callbacks = Routes /\ ServerInit /\ MapInit /\ mode = "Graceful"

NextMap == Map_add_call \/ Map_add_require_single_call

SpecMap == InitMap /\ [][NextMap]_vars

\* ------------------------------------------------------------- read_until
\* how many bytes a stream of the model has at most
MaxStream == 4

ReadStreams == UNION {[1..n -> {"a", "CR", "LF"}] : n \in 0..MaxStream}

\* read_until(delim, max) on a stream that ends, or stays open, after its bytes
InitReadUntil ==
    /\ ServerInit /\ MapInit /\ mode = "Graceful"
    /\ pc = "reading" /\ conn = "open" /\ cancelled = FALSE
    /\ peer \in {"open", "closed"}
    /\ sock \in ReadStreams /\ follow = sock
    /\ \E max \in 1..(MaxStream + 1), delim \in {CRLF, <<"a", "a">>} :
           rd = Call("read_until", max, delim, "returned")
    /\ ret = NoRet /\ hdr = <<>> /\ extra_bytes = <<>> /\ req = NoReq /\ perr = "none"
    /\ ck = NoCk /\ w = NoWrite /\ should_close = FALSE
    /\ out = <<>> /\ nsent = 1 /\ inreq = FALSE /\ reqno = 0 /\ called = <<>>
    /\ callbacks = Routes

NextReadUntil == read_buffer_data \/ read_buffer_eof

SpecReadUntil == InitReadUntil /\ [][NextReadUntil]_vars

\* ------------------------------------------------------------- one response
\* the values of Accept-Encoding a request of the serializer runs carries; the
\* empty one stands for a request without the header
AcceptEncodings == {
    <<>>,
    <<"g", "z", "i", "p">>,
    <<"G", "Z", "I", "P">>,
    <<"d", "e", "f", "l", "a", "t", "e", ",", " ", "G", "Z", "i", "p">>,
    <<"d", "e", "f", "l", "a", "t", "e", ",", " ", "g", "z", "i", "p">>,
    <<"i", "d", "e", "n", "t", "i", "t", "y">>,
    <<"g", "z", "i", "p", "p", "e", "d">>}

\* the longest body a handler of the serializer runs answers with
ResponseBodyMax == 2 * ResponseBufferSize + 1

\* the handlers registered for the serializer runs
ResponseHandlers == {"hello", "echo", "echo_text"} \cup DOMAIN StatusHandlers

\* a POST with a body of n bytes, with or without an Accept-Encoding header
SerializerBlocks ==
    {request_text("POST", <<"/">>, "Http1_1",
        <<<<"H", "o", "s", "t", ":", " ", "x">>>>
        \o (IF ae = <<>> THEN <<>>
            ELSE <<<<"A", "c", "c", "e", "p", "t", "-", "E", "n", "c", "o", "d", "i", "n", "g", ":", " ">> \o ae>>)
        \o <<<<"C", "o", "n", "t", "e", "n", "t", "-", "L", "e", "n", "g", "t", "h", ":", " ">> \o to_string(n)>>) :
        ae \in AcceptEncodings, n \in 0..ResponseBodyMax}

\* send_response on its own: one route for every method and path "/", a request
\* whose body the handler may echo; the peer stays and no shutdown is under way
InitSendResponse ==
    /\ ServerInit /\ MapInit /\ mode = "Graceful"
    /\ pc = "parse_request" /\ conn = "open" /\ peer = "open" /\ cancelled = FALSE
    /\ rd = NoRead /\ ret = NoRet /\ extra_bytes = <<>> /\ req = NoReq /\ perr = "none"
    /\ ck = NoCk /\ w = NoWrite /\ should_close = FALSE
    /\ out = <<>> /\ nsent = 1 /\ inreq = TRUE /\ reqno = 1 /\ called = <<>>
    /\ \E h \in ResponseHandlers :
           callbacks = <<[method |-> "ALL", path |-> <<"/">>, callback |-> h]>>
    /\ hdr \in SerializerBlocks
    /\ sock = [i \in 1..ResponseBodyMax |-> Digits[i + 1]] /\ follow = sock

NextSendResponse ==
    \/ parse_request \/ parse_body \/ parse_body_from_content_length \/ parse_body_match
    \/ process_request \/ process_request_error \/ handle_connection_next
    \/ read_buffer_data \/ read_buffer_timeout \/ read_buffer_io_error
    \/ write_all_ok \/ write_all_err

SpecSendResponse == InitSendResponse /\ [][NextSendResponse]_vars

\* ------------------------------------------------------------- chunked bodies
\* how many pieces a body stream of the chunked runs has at most
MaxChunks == 2

\* the pieces a chunked body is put together from: a chunk, the last chunk, a size
\* line that is no hexadecimal number, a chunk cut short, a size line cut short, an
\* empty size line, a chunk longer than request_body_max_size
ChunkPieces == {
    <<"1", "CR", "LF", "x", "CR", "LF">>,
    <<"0", "CR", "LF">>,
    <<"z", "CR", "LF">>,
    <<"3", "CR", "LF", "x">>,
    <<"1">>,
    <<"CR", "LF">>,
    <<"9", "CR", "LF", "x", "y">>}

ChunkStreams ==
    {Concat(ps) : ps \in UNION {[1..n -> ChunkPieces] : n \in 0..MaxChunks}}

ChunkedBlock ==
    request_text("POST", <<"/">>, "Http1_1",
        <<<<"H", "o", "s", "t", ":", " ", "x">>,
          <<"T", "r", "a", "n", "s", "f", "e", "r", "-", "E", "n", "c", "o", "d", "i", "n", "g", ":", " ", "c", "h", "u", "n", "k", "e", "d">>>>)

\* read_chunked on its own: handle_connection has read the header block of a chunked
\* POST together with any part of the body, the rest is on the socket or on its way,
\* and the peer has closed its side after it or keeps the connection
InitChunked ==
    /\ ServerInit /\ MapInit /\ mode = "Graceful"
    /\ pc = "parse_request" /\ conn = "open" /\ cancelled = FALSE
    /\ peer \in {"open", "closed"}
    /\ rd = NoRead /\ ret = NoRet /\ req = NoReq /\ perr = "none"
    /\ ck = NoCk /\ w = NoWrite /\ should_close = FALSE
    /\ out = <<>> /\ nsent = 1 /\ inreq = TRUE /\ reqno = 1 /\ called = <<>>
    /\ callbacks = Routes /\ hdr = ChunkedBlock
    /\ \E s \in ChunkStreams, k \in 0..MaxChunks * 6 :
           /\ k <= Len(s)
           /\ extra_bytes = SubSeq(s, 1, k) /\ sock = SubSeq(s, k + 1, Len(s))
           /\ follow = s

NextChunked ==
    \/ parse_request \/ parse_body \/ parse_body_match
    \/ process_request \/ process_request_error \/ handle_connection_next
    \/ read_chunked_loop \/ read_chunked_while \/ read_chunked_need \/ read_chunked_until
    \/ read_chunked_size \/ read_chunked_data \/ read_chunked_end
    \/ read_buffer_data \/ read_buffer_eof \/ read_buffer_timeout
    \/ write_all_ok \/ write_all_err

SpecChunked == InitChunked /\ [][NextChunked]_vars

\* read_chunked is running: in its loop or in a read it has asked for
InReadChunked ==
    \/ pc \in {"ck_loop", "ck_while", "ck_need_ret", "ck_until_ret", "ck_size",
               "ck_data_ret", "ck_end"}
    \/ pc = "reading" /\ rd.k \in {"ck_need_ret", "ck_until_ret", "ck_data_ret"}

\* a step of read_chunked other than the parsing of a size line, or of a read it
\* waits for
ReadChunkedStep ==
    \/ read_chunked_loop \/ read_chunked_while \/ read_chunked_need \/ read_chunked_until
    \/ read_chunked_data \/ read_chunked_end
    \/ read_buffer_data \/ read_buffer_eof \/ read_buffer_timeout

\* the task that runs the connection is polled as long as it can go on, and a read
\* ends with bytes, with the end of the stream or with the read_timeout timer: weak
\* fairness of the steps of read_chunked. For read_chunked_size it is written with
\* its guard for ENABLED <<read_chunked_size>>_vars: the step is taken if the task
\* stays at the size line
FairSpecChunked ==
    /\ SpecChunked
    /\ WF_vars(ReadChunkedStep)
    /\ []<>~(pc = "ck_size" /\ conn = "open") \/ []<><<read_chunked_size>>_vars

\* ------------------------------------------------------------- header lines
\* how many characters the name and the value of the header line under test have
MaxHeaderText == 2

\* the characters of the names: a letter, a tchar sign, a sign that is no tchar, a
\* blank, a letter outside ASCII
NameChars == {"A", "~", "@", " ", "e_acute"}

\* the characters of the values: a letter, a blank, TAB, DEL, a byte above 127
ValueChars == {"x", " ", "TAB", "DEL", "e_acute"}

HeaderLineBlocks ==
    {request_text("GET", <<"/">>, "Http1_1",
        <<<<"H", "o", "s", "t", ":", " ", "x">>, name \o <<":">> \o value>>) :
        name \in UNION {[1..n -> NameChars] : n \in 0..MaxHeaderText},
        value \in UNION {[1..n -> ValueChars] : n \in 0..MaxHeaderText}}

\* parse_header_line on its own: a GET with a Host line and one more header line
InitHeaderLine ==
    /\ ServerInit /\ MapInit /\ mode = "Graceful"
    /\ pc = "parse_request" /\ conn = "open" /\ peer = "open" /\ cancelled = FALSE
    /\ rd = NoRead /\ ret = NoRet /\ extra_bytes = <<>> /\ req = NoReq /\ perr = "none"
    /\ ck = NoCk /\ w = NoWrite /\ should_close = FALSE
    /\ out = <<>> /\ nsent = 1 /\ inreq = TRUE /\ reqno = 1 /\ called = <<>>
    /\ callbacks = Routes /\ hdr \in HeaderLineBlocks
    /\ sock = <<>> /\ follow = <<>>

NextHeaderLine ==
    \/ parse_request \/ parse_body \/ parse_body_match
    \/ process_request \/ process_request_error \/ handle_connection_next
    \/ write_all_ok \/ write_all_err

SpecHeaderLine == InitHeaderLine /\ [][NextHeaderLine]_vars

\* ------------------------------------------------------------- the server
\* the user sends on the Sender that run returned
user_signal ==
    /\ ~user_chan.sent /\ ~user_chan.closed
    /\ user_chan' = [user_chan EXCEPT !.msgs = 1, !.sent = TRUE]
    /\ UNCHANGED <<mode, accept_pc, cancel_chan, timer, tasks>>
    /\ UNCHANGED <<connection_vars, map_vars>>

\* accept_connection: server.accept() wins the select; run_connection spawns the task,
\* which goes to its first read holding a clone of cancel_rx
accept_connection_accepted ==
    /\ accept_pc = "accepting"
    /\ \E c \in Connections :
        /\ tasks[c].st = "none"
        /\ \A d \in Connections : d < c => tasks[d].st # "none"
        /\ tasks' = [tasks EXCEPT ![c].st = "reading"]
    /\ UNCHANGED <<mode, accept_pc, user_chan, cancel_chan, timer>>
    /\ UNCHANGED <<connection_vars, map_vars>>

\* a faulty shutdown_server that sends without waiting for the grace period
shutdown_server_no_wait(shutdown_mode) == "send"

\* shutdown_server: what it does first
shutdown_server(shutdown_mode) ==
    IF shutdown_mode = "Immediate" THEN "send" ELSE "timer"

\* the user drops the Sender that run returned: the channel is closed
user_drop ==
    /\ ~user_chan.closed
    /\ user_chan' = [user_chan EXCEPT !.closed = TRUE]
    /\ UNCHANGED <<mode, accept_pc, cancel_chan, timer, tasks>>
    /\ UNCHANGED <<connection_vars, map_vars>>

\* a faulty accept_connection that takes a message only for the signal
accept_connection_cancelled_on_message ==
    /\ accept_pc = "accepting"
    /\ user_chan.msgs > 0
    /\ user_chan' = [user_chan EXCEPT !.msgs = 0]
    /\ IF shutdown_server(mode) = "timer"
       THEN accept_pc' = "grace" /\ timer' = "running"
       ELSE accept_pc' = "send" /\ UNCHANGED timer
    /\ UNCHANGED <<mode, cancel_chan, tasks>>
    /\ UNCHANGED <<connection_vars, map_vars>>

\* accept_connection: cancellation_token.recv() wins the select, with the message or
\* with the error of a closed and empty channel (`_ =`), and shutdown_server starts
accept_connection_cancelled ==
    /\ accept_pc = "accepting"
    /\ user_chan.msgs > 0 \/ user_chan.closed
    /\ user_chan' = [user_chan EXCEPT !.msgs = 0]
    /\ IF shutdown_server(mode) = "timer"
       THEN accept_pc' = "grace" /\ timer' = "running"
       ELSE accept_pc' = "send" /\ UNCHANGED timer
    /\ UNCHANGED <<mode, cancel_chan, tasks>>
    /\ UNCHANGED <<connection_vars, map_vars>>

\* shutdown_server, Graceful: smol::Timer::after(timeout) fires
shutdown_server_timer ==
    /\ accept_pc = "grace" /\ timer = "running"
    /\ timer' = "expired" /\ accept_pc' = "send"
    /\ UNCHANGED <<mode, user_chan, cancel_chan, tasks>>
    /\ UNCHANGED <<connection_vars, map_vars>>

\* shutdown_server: cancellation_token.send(()) on the bounded(1) channel
shutdown_server_send ==
    /\ accept_pc = "send"
    /\ cancel_chan.msgs = 0 /\ ~cancel_chan.closed
    /\ cancel_chan' = [cancel_chan EXCEPT !.msgs = 1]
    /\ accept_pc' = "shutdown"
    /\ UNCHANGED <<mode, user_chan, timer, tasks>>
    /\ UNCHANGED <<connection_vars, map_vars>>

\* a faulty loop that treats Shutdown like an accept error
run_match_continue(e) == "continue"

\* run: the match on the AcceptError
run_match(e) == IF e = "Shutdown" THEN "break" ELSE "continue"

\* a faulty end of the task that leaves a Sender of the cancellation channel alive
run_return_sender_kept ==
    /\ accept_pc = "shutdown"
    /\ accept_pc' = "done"
    /\ UNCHANGED <<mode, user_chan, cancel_chan, timer, tasks>>
    /\ UNCHANGED <<connection_vars, map_vars>>

\* run: accept_connection returned Err(Shutdown); on break the task ends, and with it
\* go cancel_tx and its clones: the cancellation channel is closed
run_return ==
    /\ accept_pc = "shutdown"
    /\ IF run_match("Shutdown") = "break"
       THEN accept_pc' = "done" /\ cancel_chan' = [cancel_chan EXCEPT !.closed = TRUE]
       ELSE accept_pc' = "accepting" /\ UNCHANGED cancel_chan
    /\ UNCHANGED <<mode, user_chan, timer, tasks>>
    /\ UNCHANGED <<connection_vars, map_vars>>

\* recv() on the cancellation channel resolves: with the message, or with the error
\* of a closed and empty channel; the select takes either for cancellation
recv_ready == cancel_chan.msgs > 0 \/ cancel_chan.closed

Open(c) == tasks[c].st \in {"reading", "writing"}

\* the strong handles of the route table: the Arc the accept-loop task owns until it
\* returns, and the Arc each connection task holds, from the upgrade() of
\* run_connection until the task ends
strong_count ==
    (IF accept_pc = "done" THEN 0 ELSE 1) + Cardinality({c \in Connections : Open(c)})

\* the route table and the handler closures are dropped with the last strong handle
released == strong_count = 0

\* a connection task: the socket's read wins, a request is read, parsed and handled
connection_request(c) ==
    /\ tasks[c].st = "reading" /\ tasks[c].served < MaxServed
    /\ tasks' = [tasks EXCEPT ![c].st = "writing"]
    /\ UNCHANGED <<mode, accept_pc, user_chan, cancel_chan, timer>>
    /\ UNCHANGED <<connection_vars, map_vars>>

\* a connection task: the socket's write wins, the response is out, the loop reads again
connection_response(c) ==
    /\ tasks[c].st = "writing"
    /\ tasks' = [tasks EXCEPT ![c].st = "reading", ![c].served = @ + 1,
                              ![c].in_grace = @ \/ accept_pc = "grace"]
    /\ UNCHANGED <<mode, accept_pc, user_chan, cancel_chan, timer>>
    /\ UNCHANGED <<connection_vars, map_vars>>

\* a connection task: the cancellation receiver wins the select of a read or a write,
\* and handle_connection returns
connection_cancelled(c) ==
    /\ Open(c) /\ recv_ready
    /\ tasks' = [tasks EXCEPT ![c].st = "closed", ![c].observed = TRUE]
    /\ cancel_chan' = [cancel_chan EXCEPT !.msgs = IF @ > 0 THEN @ - 1 ELSE @]
    /\ UNCHANGED <<mode, accept_pc, user_chan, timer>>
    /\ UNCHANGED <<connection_vars, map_vars>>

\* a connection task ends for another reason: timeout, end of stream, error, close
connection_closed(c) ==
    /\ Open(c)
    /\ tasks' = [tasks EXCEPT ![c].st = "closed"]
    /\ UNCHANGED <<mode, accept_pc, user_chan, cancel_chan, timer>>
    /\ UNCHANGED <<connection_vars, map_vars>>

InitServer == ConnectionInit /\ callbacks = Routes /\ ServerInit /\ MapInit

NextServer ==
    \/ user_signal \/ user_drop
    \/ accept_connection_accepted \/ accept_connection_cancelled
    \/ shutdown_server_timer \/ shutdown_server_send \/ run_return
    \/ \E c \in Connections : connection_request(c)
    \/ \E c \in Connections : connection_response(c)
    \/ \E c \in Connections : connection_cancelled(c)
    \/ \E c \in Connections : connection_closed(c)

\* the executor runs a task that can go on, the timer fires, and a select that is
\* polled with its cancellation branch ready does not pass it over for ever
SpecServer ==
    /\ InitServer /\ [][NextServer]_vars
    /\ WF_vars(accept_connection_cancelled)
    /\ WF_vars(shutdown_server_timer)
    /\ WF_vars(shutdown_server_send)
    /\ WF_vars(run_return)
    /\ \A c \in Connections : WF_vars(connection_cancelled(c))

\* ----------------------------------------------------------------- run_https
\* run_https: accept_connection returns a stream; the loop goes on to the handshake
run_https_accepted ==
    /\ accept_pc = "accepting"
    /\ \E c \in Connections :
        /\ tasks[c].st = "none"
        /\ \A d \in Connections : d < c => tasks[d].st # "none"
        /\ tasks' = [tasks EXCEPT ![c].st = "handshake"]
    /\ accept_pc' = "handshake"
    /\ UNCHANGED <<mode, user_chan, cancel_chan, timer>>
    /\ UNCHANGED <<connection_vars, map_vars>>

\* run_https: acceptor.accept(client).await gives the TLS stream, run_connection spawns
\* the task of the connection and the loop accepts again
run_https_handshake_ok ==
    /\ accept_pc = "handshake"
    /\ \E c \in Connections :
        /\ tasks[c].st = "handshake"
        /\ tasks' = [tasks EXCEPT ![c].st = "reading"]
    /\ accept_pc' = "accepting"
    /\ UNCHANGED <<mode, user_chan, cancel_chan, timer>>
    /\ UNCHANGED <<connection_vars, map_vars>>

\* run_https: the handshake fails, the stream is dropped and the loop accepts again
run_https_handshake_err ==
    /\ accept_pc = "handshake"
    /\ \E c \in Connections :
        /\ tasks[c].st = "handshake"
        /\ tasks' = [tasks EXCEPT ![c].st = "closed"]
    /\ accept_pc' = "accepting"
    /\ UNCHANGED <<mode, user_chan, cancel_chan, timer>>
    /\ UNCHANGED <<connection_vars, map_vars>>

NextHttps ==
    \/ user_signal \/ user_drop
    \/ run_https_accepted \/ run_https_handshake_ok \/ run_https_handshake_err
    \/ accept_connection_cancelled
    \/ shutdown_server_timer \/ shutdown_server_send \/ run_return
    \/ \E c \in Connections : connection_request(c)
    \/ \E c \in Connections : connection_response(c)
    \/ \E c \in Connections : connection_cancelled(c)
    \/ \E c \in Connections : connection_closed(c)

\* the executor and the timer as in SpecServer; the end of a handshake is the client's
\* to give, and run_https sets no time limit on it
SpecHttps ==
    /\ InitServer /\ [][NextHttps]_vars
    /\ WF_vars(accept_connection_cancelled)
    /\ WF_vars(shutdown_server_timer)
    /\ WF_vars(shutdown_server_send)
    /\ WF_vars(run_return)
    /\ \A c \in Connections : WF_vars(connection_cancelled(c))

\* ------------------------------------------------------------- properties
\* the lines of a header block as the client wrote them
HeaderLines(h) == split(Expand(h), CRLF)

\* the values, in lower case, of the lines `name: value` of the block, the names
\* compared ignoring case
HeaderValues(h, name) ==
    LET lines == HeaderLines(h)
        named == {i \in DOMAIN lines :
                     /\ split_once(lines[i], <<":">>).some
                     /\ to_lowercase(trim(split_once(lines[i], <<":">>).a)) = name}
    IN  {to_lowercase(trim(split_once(lines[i], <<":">>).b)) : i \in named}

\* what has been written for request k, and the final responses among it
Records(k) == SelectSeq(out, LAMBDA r : r.req = k)
Finals(k) == SelectSeq(out, LAMBDA r : r.req = k /\ r.last)
Interims(k) == SelectSeq(out, LAMBDA r : r.req = k /\ r.part = "interim")

\* C1: a request with Content-Length N that parsed is handed to the handler with
\* exactly the first N bytes sent after the header terminator as its body
C1_BodyIsFirstN ==
    (pc = "dispatch" /\ get_single(req.headers, S_content_length).some) =>
        LET N == from_str_radix(get_single(req.headers, S_content_length).v, 10)
        IN  Len(follow) >= N => req.body = SubSeq(follow, 1, N)

\* C2: when a well-formed chunked body follows the header terminator, read_chunked
\* ends without a panic and the body handed on is the chunk payloads in order
C2_ChunkedBodyIsPayloads ==
    (inreq /\ get_single(req.headers, S_transfer_encoding).some) =>
        \A c \in ChunkLists :
            starts_with(follow, encode_chunked(c)) =>
                /\ conn # "panic"
                /\ pc = "dispatch" => req.body = Concat(c)

\* C3: once the response to a parsed request is written, the driver returns (closing
\* the connection) exactly when the request had Connection: close ignoring case, and
\* otherwise goes back to the top of its loop to read the next request
C3_CloseIffConnectionClose ==
    [][(pc = "hc_ret" /\ perr = "none" /\ pc' # pc) =>
          IF S_close \in HeaderValues(hdr, S_connection)
          THEN conn' = "ok" /\ pc' = "end"
          ELSE conn' = "open" /\ pc' = "hc_loop"]_vars

C3_Witness ==
    /\ pc = "end" /\ conn = "ok" /\ perr = "none"
    /\ hdr # <<>> /\ Head(hdr) = "H_Close"
    /\ Len(Finals(reqno)) = 1

\* C4: writes appear in the order of the requests, a write is only ever in progress
\* inside the one request being served, and whenever the driver is at, or inside, the
\* read of a header block every earlier request has its one response, written to its
\* last write
C4_Serialized ==
    /\ \A i, j \in DOMAIN out : i <= j => out[i].req <= out[j].req
    /\ w # NoWrite => pc = "writing"
    /\ (pc = "hc_loop" \/ (pc = "reading" /\ rd.k = "hc_match")) =>
          /\ w = NoWrite
          /\ \A k \in 1..reqno :
                /\ Len(Finals(k)) = 1
                /\ Records(k)[Len(Records(k))].last

C4_Witness ==
    /\ reqno = 2 /\ pc = "parse_request"
    /\ Len(Records(1)) > 1 /\ Len(Finals(1)) = 1

\* C5: while the header block is being read nothing is written, and when that read
\* ends at the end of the stream, by timeout or by cancellation with no terminator
\* received, the connection ends with nothing written
C5_NothingWrittenForPartialRequest ==
    [][/\ (pc = "reading" /\ rd.k = "hc_match") => out' = out /\ w' = NoWrite
       /\ (/\ pc = "hc_match"
           /\ \/ ret.ok /\ ~bytes_contain(ret.val, CRLFCRLF)
              \/ ~ret.ok /\ ret.err \in {"Timeout", "Cancellation"}
           /\ pc' # pc)
          => out' = out /\ w' = NoWrite /\ pc' = "end" /\ conn' \in {"ok", "err"}]_vars

C5_Witness ==
    /\ pc = "end" /\ conn = "err" /\ peer = "closed"
    /\ ret.ok /\ ret.val # <<>> /\ ~bytes_contain(ret.val, CRLFCRLF)
    /\ out = <<>>

\* C6: the answer to each RequestParsingError: a 400 for InvalidBody, InvalidHeader,
\* InvalidRequest and UnhandledRequest, a 413 for PayloadTooLarge, both keeping the
\* connection; a return without a response for Cancellation, Timeout and
\* UnexpectedError; a return with the error and without a response for IoError
Rejections == {"InvalidBody", "InvalidHeader", "InvalidRequest", "UnhandledRequest"}
Silent == {"Cancellation", "Timeout", "UnexpectedError"}

C6_ParseErrorActions ==
    /\ \A e \in Rejections : error_action(e) = [respond |-> 400, result |-> "Ok(false)"]
    /\ error_action("PayloadTooLarge") = [respond |-> 413, result |-> "Ok(false)"]
    /\ \A e \in Silent : error_action(e) = [respond |-> 0, result |-> "Ok(true)"]
    /\ error_action("IoError") = [respond |-> 0, result |-> "Err"]
    /\ (pc = "hc_ret" /\ perr \in Rejections \cup {"PayloadTooLarge"}) =>
          /\ Len(Finals(reqno)) = 1
          /\ Finals(reqno)[1].status = (IF perr = "PayloadTooLarge" THEN 413 ELSE 400)
          /\ ~should_close
    /\ (pc \in {"hc_ret", "end"} /\ perr \in Silent) =>
          /\ Finals(reqno) = <<>>
          /\ pc = "hc_ret" => should_close
          /\ pc = "end" => conn = "ok"
    /\ (pc = "end" /\ perr = "IoError") => conn = "err" /\ Finals(reqno) = <<>>

C6_Witness ==
    /\ pc = "hc_ret" /\ perr = "PayloadTooLarge"
    /\ Len(Finals(reqno)) = 1 /\ Finals(reqno)[1].status = 413

\* the request's Expect header holds 100-continue, ignoring case
ExpectsContinue(h) == \E v \in HeaderValues(h, S_expect) : contains(v, S_100_continue)

BodyReader ==
    pc \in {"parse_body", "reading", "pb_cl_ret", "pb_ret", "ck_loop", "ck_while",
            "ck_need_ret", "ck_until_ret", "ck_size", "ck_data_ret", "ck_end",
            "dispatch", "hc_ret"}

C7_ObservedAtNextReadOrWrite ==
    [][\A c \in Connections :
          (mode = "Immediate" /\ recv_ready /\ Open(c) /\ tasks'[c] # tasks[c]) =>
              tasks'[c].st = "closed"]_vars

\* C7, amended: in Immediate mode, once the accept-loop task has ended the cancellation
\* receiver of every open connection is ready at each read and write, whatever the
\* number of connections, and every connection open after the user's signal comes to
\* a close; a read or a write whose socket is ready as well may still complete first
C7_ImmediateReachesEveryConnection ==
    /\ []((mode = "Immediate" /\ accept_pc = "done") => recv_ready)
    /\ \A c \in Connections :
          (mode = "Immediate" /\ user_chan.sent /\ Open(c)) ~> ~Open(c)
    /\ (mode = "Immediate" /\ user_chan.sent)
          ~> (accept_pc = "done" /\ \A c \in Connections : ~Open(c))

C7_Witness ==
    /\ mode = "Immediate" /\ accept_pc = "done"
    /\ Cardinality({c \in Connections : tasks[c].observed}) >= 2

C9_AcceptLoopEnds ==
    /\ user_chan.sent ~> accept_pc = "done"
    /\ []((mode = "Graceful" /\ accept_pc = "done") => timer = "expired")
    /\ [][accept_pc # "accepting" =>
            \A c \in Connections : tasks[c].st = "none" => tasks'[c].st = "none"]_vars
    /\ [][accept_pc = "done" => accept_pc' = "done"]_vars

C9_Witness ==
    /\ accept_pc = "done" /\ mode = "Graceful" /\ timer = "expired"
    /\ \E c \in Connections : tasks[c].st = "none"
    /\ \E c \in Connections : tasks[c].st # "none"

\* ------------------------------------------------------------- routing
\* the path the router works on
RoutedPath == rewrite_path(req.path)

\* a request has parsed and its response is being written, or is written
Dispatched ==
    /\ inreq /\ perr = "none" /\ req.method # "None"
    /\ pc = "hc_ret" \/ (pc = "writing" /\ w.k = "hc_ret")

\* the handlers invoked for request k
Calls(k) == SelectSeq(called, LAMBDA c : c.req = k)

\* the routes whose pattern matches the path, and those that match the method too
PathRoutes == {i \in DOMAIN callbacks : path_matches(callbacks[i].path, RoutedPath)}
MethodRoutes == {i \in PathRoutes : callbacks[i].method \in {req.method, "ALL"}}

\* C11: a parsed request that is not OPTIONS and that no route matches in path and
\* method is answered 404 when no pattern matches its path and 405 when one does,
\* and no handler is called
C11_UnroutedIs404Or405 ==
    (Dispatched /\ req.method # "OPTIONS" /\ MethodRoutes = {}) =>
        LET code == IF PathRoutes = {} THEN 404 ELSE 405
        IN  /\ Calls(reqno) = <<>>
            /\ pc = "writing" => w.q = send_simple_response(status(code))
            /\ pc = "hc_ret" =>
                  /\ Len(Finals(reqno)) = 1
                  /\ Finals(reqno)[1].status = code

C11_Witness ==
    /\ pc = "hc_ret" /\ perr = "none" /\ req.method = "PUT"
    /\ Len(callbacks) = 2 /\ PathRoutes = {1, 2}
    /\ callbacks[1].method = "GET" /\ callbacks[2].method = "POST"
    /\ called = <<>>
    /\ Len(Finals(reqno)) = 1 /\ Finals(reqno)[1].status = 405

\* C12: for a parsed request that is not OPTIONS the handler called is the one of the
\* first route, in registration order, whose pattern matches the path and whose
\* method is the request's or ALL; no other handler is called, and never two
C12_FirstMatchWins ==
    /\ \A k \in 1..reqno : Len(Calls(k)) <= 1
    /\ (Dispatched /\ req.method # "OPTIONS") =>
          IF MethodRoutes = {} THEN Calls(reqno) = <<>>
          ELSE /\ Len(Calls(reqno)) = 1
               /\ Calls(reqno)[1].listener \in MethodRoutes
               /\ \A i \in MethodRoutes : Calls(reqno)[1].listener <= i
    /\ (Dispatched /\ req.method = "OPTIONS") => Calls(reqno) = <<>>

C12_Witness ==
    /\ pc = "hc_ret" /\ perr = "none" /\ req.method = "POST"
    /\ Len(callbacks) = 2 /\ MethodRoutes = {1, 2}
    /\ callbacks[1].method = "ALL" /\ callbacks[2].method = "POST"
    /\ callbacks[1].path # callbacks[2].path
    /\ Len(called) = 1 /\ called[1].listener = 1

\* the place of a method name in the ascending order of the names
MethodRank(m) == CHOOSE i \in DOMAIN SortedMethods : SortedMethods[i] = m

\* the methods an OPTIONS response has to name for the path of the request
AllowedSet ==
    IF \E i \in PathRoutes : callbacks[i].method = "ALL"
    THEN {"GET", "POST", "PUT", "DELETE", "PATCH", "OPTIONS", "HEAD"}
    ELSE {"OPTIONS"} \cup {callbacks[i].method : i \in PathRoutes}

\* the record r is a 200 whose one Allow header lists AllowedSet, ascending, once each
IsAllowResponse(r) ==
    /\ r.status = 200
    /\ Cardinality({i \in DOMAIN r.hdrs : r.hdrs[i].k = "Allow"}) = 1
    /\ \A i \in DOMAIN r.hdrs : r.hdrs[i].k = "Allow" =>
          LET v == r.hdrs[i].v
          IN  /\ {v[j] : j \in DOMAIN v} = AllowedSet
              /\ \A j \in DOMAIN v : InSeq(SortedMethods, v[j])
              /\ \A j, l \in DOMAIN v : j < l => MethodRank(v[j]) < MethodRank(v[l])

\* C13: an OPTIONS request is answered 404 when no pattern matches its path, and
\* otherwise 200 with an Allow header listing, ascending and without repetition,
\* OPTIONS and the methods of the routes whose pattern matches, or the fixed set
\* GET, POST, PUT, DELETE, PATCH, OPTIONS, HEAD when one of them is registered for ALL
C13_OptionsAllow ==
    (Dispatched /\ req.method = "OPTIONS") =>
        /\ pc = "writing" =>
              IF PathRoutes = {} THEN w.q = send_simple_response(status(404))
              ELSE Len(w.q) = 1 /\ w.q[1].last /\ IsAllowResponse(w.q[1])
        /\ pc = "hc_ret" =>
              /\ Len(Finals(reqno)) = 1
              /\ IF PathRoutes = {} THEN Finals(reqno)[1].status = 404
                 ELSE IsAllowResponse(Finals(reqno)[1])

C13_Witness ==
    /\ pc = "hc_ret" /\ perr = "none" /\ req.method = "OPTIONS"
    /\ Len(callbacks) = 2 /\ PathRoutes = {1, 2}
    /\ callbacks[1].method = "POST" /\ callbacks[2].method = "GET"
    /\ Len(Finals(reqno)) = 1 /\ Finals(reqno)[1].status = 200
    /\ \E i \in DOMAIN Finals(reqno)[1].hdrs :
          /\ Finals(reqno)[1].hdrs[i].k = "Allow"
          /\ Finals(reqno)[1].hdrs[i].v = <<"GET", "OPTIONS", "POST">>

\* the `/`-separated segments of a pattern or a path, and the `:name` segments
Segments(s) == split(s, <<"/">>)
IsParam(segment) == segment # <<>> /\ Head(segment) = ":"

\* the pattern matches the path, as the routing rules state it
SegmentsMatch(pattern, path) ==
    IF \E i \in DOMAIN pattern : pattern[i] = ":"
    THEN /\ Len(Segments(pattern)) = Len(Segments(path))
         /\ \A i \in DOMAIN Segments(pattern) :
                ~IsParam(Segments(pattern)[i]) => Segments(pattern)[i] = Segments(path)[i]
    ELSE pattern = path

\* one entry per `:name` segment of the pattern, in order: the name and the segment of
\* the path at the same position
Bindings(pattern, path) ==
    LET at == SelectSeq([i \in DOMAIN Segments(pattern) |-> i],
                        LAMBDA i : IsParam(Segments(pattern)[i]))
    IN  [k \in DOMAIN at |-> [key |-> Tail(Segments(pattern)[at[k]]),
                              value |-> Segments(path)[at[k]]]]

RouteFits(i) ==
    /\ SegmentsMatch(callbacks[i].path, RoutedPath)
    /\ callbacks[i].method \in {req.method, "ALL"}

\* C14: a pattern with a `:` matches a path exactly when both have the same number of
\* `/`-separated segments and every segment of the pattern that does not start with
\* `:` equals the segment of the path at its position; a pattern without `:` matches
\* exactly when it equals the path; the handler of a matching route receives, for each
\* `:name` segment, name bound to the segment of the path at the same position
C14_PatternMatching ==
    (Dispatched /\ req.method # "OPTIONS") =>
        IF Calls(reqno) # <<>>
        THEN LET c == Calls(reqno)[1]
             IN  /\ RouteFits(c.listener)
                 /\ \A i \in 1..(c.listener - 1) : ~RouteFits(i)
                 /\ c.path_params = Bindings(callbacks[c.listener].path, RoutedPath)
        ELSE /\ \A i \in DOMAIN callbacks : ~RouteFits(i)
             /\ pc = "hc_ret" =>
                   /\ Len(Finals(reqno)) = 1
                   /\ Finals(reqno)[1].status = 404 <=>
                         \A i \in DOMAIN callbacks :
                             ~SegmentsMatch(callbacks[i].path, RoutedPath)

C14_Witness ==
    /\ pc = "hc_ret" /\ perr = "none"
    /\ Len(callbacks) = 1 /\ callbacks[1].path = <<"/", ":", "a", "/", ":", "b">>
    /\ RoutedPath = <<"/", "u", "/", "7">>
    /\ Len(called) = 1
    /\ called[1].path_params = <<[key |-> <<"a">>, value |-> <<"u">>],
                                 [key |-> <<"b">>, value |-> <<"7">>]>>

\* ------------------------------------------------------------- header checks
\* parse_request has gone through the header block of the request in hand
HeadParsed == inreq /\ pc # "parse_request"

\* the name, in lower case, of a line `name: value`
LineName(line) ==
    LET sp == split_once(line, <<":">>)
    IN  IF sp.some THEN [some |-> TRUE, name |-> to_lowercase(trim(sp.a))]
        ELSE [some |-> FALSE, name |-> <<>>]

\* the names of the header lines of a block, line by line; the request line has none
HeaderNames(lines) ==
    [i \in DOMAIN lines |->
        IF i = 1 THEN [some |-> FALSE, name |-> <<>>] ELSE LineName(lines[i])]

\* the block is text and its request line is accepted
RequestLineOk(h, lines) ==
    /\ \A i \in DOMAIN h : h[i] \in Tokens \/ h[i] \notin InvalidUtf8
    /\ parse_http_request_line(lines[1]).ok

\* the version on the request line of the block
LineVersion(lines) == parse_http_request_line(lines[1]).version

\* the header lines that carry the name, whatever its case, and the names there are
NameLines(names, name) ==
    {i \in DOMAIN names : names[i].some /\ names[i].name = name}

LineNames(names) == {names[i].name : i \in {j \in DOMAIN names : names[j].some}}

IsLowerCase(s) == \A i \in DOMAIN s : \A k \in DOMAIN UpperAlpha : s[i] # UpperAlpha[k]

\* a name outside the duplicatable set occurs on two lines of the block
RepeatedSingle(names) ==
    \E name \in LineNames(names) \ DUPLICATABLE_HEADER_NAMES :
        Cardinality(NameLines(names, name)) >= 2

\* every header line of the block is empty or `name: value` with a valid name and
\* value, and no name outside the duplicatable set is repeated
HeaderLinesOk(lines, names) ==
    /\ \A i \in DOMAIN lines \ {1} :
          \/ lines[i] = <<>>
          \/ /\ split_once(lines[i], <<":">>).some
             /\ is_valid_header_name(to_lowercase(trim_end(split_once(lines[i], <<":">>).a)))
             /\ is_valid_header_value(trim_start(split_once(lines[i], <<":">>).b))
    /\ ~RepeatedSingle(names)

\* the block names both framings
BothFramingNames(names) ==
    NameLines(names, S_content_length) # {} /\ NameLines(names, S_transfer_encoding) # {}

\* nothing has been read from the socket, or asked of it, since the header block
NothingRead == rd = NoRead /\ sock = follow /\ extra_bytes = <<>>

\* the request in hand is refused with the status code and no handler is called
RefusedWith(code) ==
    /\ Calls(reqno) = <<>>
    /\ pc = "writing" => w.q = send_simple_response(status(code))
    /\ pc = "hc_ret" => Len(Finals(reqno)) = 1 /\ Finals(reqno)[1].status = code

\* C15: the header map of a parsed request has lower-case names, one key per name of
\* the block with as many values as the name has lines, and one value for every name
\* outside the duplicatable set; a block that repeats such a name, in any letter
\* case, fails with InvalidHeader and is answered 400
C15_HeaderMapShape ==
    LET lines == HeaderLines(hdr)
        names == HeaderNames(lines)
    IN  /\ \A i \in DOMAIN req.headers :
              /\ IsLowerCase(req.headers[i].key)
              /\ \A j \in DOMAIN req.headers :
                    req.headers[j].key = req.headers[i].key => i = j
              /\ Len(req.headers[i].vals) =
                    Cardinality(NameLines(names, req.headers[i].key))
              /\ req.headers[i].key \notin DUPLICATABLE_HEADER_NAMES =>
                    req.headers[i].single /\ Len(req.headers[i].vals) = 1
        /\ req # NoReq =>
              {req.headers[i].key : i \in DOMAIN req.headers} = LineNames(names)
        /\ (HeadParsed /\ RequestLineOk(hdr, lines) /\ RepeatedSingle(names)) =>
              /\ perr = "InvalidHeader" /\ req = NoReq
              /\ RefusedWith(400)

C15_Witness ==
    /\ pc = "hc_ret" /\ perr = "InvalidHeader"
    /\ Cardinality(NameLines(HeaderNames(HeaderLines(hdr)), S_content_length)) = 2
    /\ HeaderValues(hdr, S_content_length) = {to_string(BodyMax), to_string(BodyMax + 1)}
    /\ HeaderValues(hdr, S_host) # {}
    /\ Len(Finals(reqno)) = 1 /\ Finals(reqno)[1].status = 400
    /\ called = <<>>

\* C16 as stated: an HTTP/1.1 request without Host fails with InvalidRequest before
\* any body byte is read, whatever its other headers; HTTP/1.0 without Host is not
\* rejected for that reason
C16_NoHostIsInvalidRequest ==
    HeadParsed =>
        LET lines == HeaderLines(hdr)
            names == HeaderNames(lines)
        IN  (RequestLineOk(hdr, lines) /\ NameLines(names, S_host) = {}) =>
                /\ LineVersion(lines) = "Http1_1" =>
                      perr = "InvalidRequest" /\ NothingRead
                /\ (LineVersion(lines) = "Http1_0" /\ HeaderLinesOk(lines, names)
                    /\ ~BothFramingNames(names)) =>
                      perr # "InvalidRequest"

\* C16, amended: an HTTP/1.1 request without Host is refused with 400 before any body
\* byte is read and before any interim response: with InvalidRequest when its header
\* lines are accepted, with InvalidHeader when they are not; an HTTP/1.0 request
\* without Host whose header lines are accepted is parsed
C16_NoHostRefusedBeforeBody ==
    HeadParsed =>
        LET lines == HeaderLines(hdr)
            names == HeaderNames(lines)
        IN  (RequestLineOk(hdr, lines) /\ NameLines(names, S_host) = {}) =>
                /\ LineVersion(lines) = "Http1_1" =>
                      /\ perr = IF HeaderLinesOk(lines, names) THEN "InvalidRequest"
                                ELSE "InvalidHeader"
                      /\ req = NoReq /\ NothingRead
                      /\ Interims(reqno) = <<>>
                      /\ RefusedWith(400)
                /\ (LineVersion(lines) = "Http1_0" /\ HeaderLinesOk(lines, names)
                    /\ ~BothFramingNames(names)) =>
                      perr # "InvalidRequest" /\ req # NoReq

C16_Witness ==
    /\ pc = "hc_ret" /\ perr = "InvalidRequest"
    /\ LineVersion(HeaderLines(hdr)) = "Http1_1"
    /\ HeaderValues(hdr, S_host) = {}
    /\ HeaderValues(hdr, S_content_length) # {} /\ ExpectsContinue(hdr)
    /\ Len(out) = 1 /\ out[1].status = 400
    /\ sock = follow /\ Len(sock) = BodyMax

BodyDecided ==
    /\ inreq /\ req # NoReq
    /\ pc \notin {"parse_request", "parse_body"}
    /\ ~(pc = "writing" /\ w.k = "parse_body")
    /\ Interims(reqno) = <<>> => ~ExpectsContinue(hdr)

\* C18: a parsed request whose Content-Length is above request_body_max_size fails
\* with PayloadTooLarge and is answered 413 with nothing read from the socket; one
\* whose Content-Length equals request_body_max_size is not refused for its size, its
\* body is read from the socket and it reaches the handler with that many bytes
C18_BodyLimit ==
    BodyDecided =>
        LET content_lengths == HeaderValues(hdr, S_content_length)
        IN  /\ content_lengths = {to_string(BodyMax + 1)} =>
                  /\ perr = "PayloadTooLarge"
                  /\ NothingRead
                  /\ RefusedWith(413)
            /\ content_lengths = {to_string(BodyMax)} =>
                  /\ perr # "PayloadTooLarge"
                  /\ pc = "reading" => rd.op = "read_n" /\ rd.size = BodyMax
                  /\ pc = "dispatch" =>
                        /\ req.body = SubSeq(follow, 1, BodyMax)
                        /\ Len(req.body) = BodyMax /\ sock = <<>>

C18_Witness ==
    /\ pc = "dispatch" /\ perr = "none"
    /\ HeaderValues(hdr, S_content_length) = {to_string(BodyMax)}
    /\ Len(req.body) = BodyMax /\ Len(follow) = BodyMax
    /\ sock = <<>>

\* ------------------------------------------------------------- the header read
\* a step of the header read takes bytes from the socket; what it has accumulated then
HeaderReadTakes ==
    /\ pc = "reading" /\ rd.k = "hc_match" /\ rd.op = "read_until"
    /\ Len(sock') < Len(sock) /\ peer' = peer

Accumulated == rd.out \o SubSeq(sock, 1, Len(sock) - Len(sock'))

TooLargeResponse == send_simple_response(status(413))

\* C19: the header read ends with MaxSizeExceeded exactly when it has accumulated
\* request_header_max_size bytes without CRLF CRLF among them; the driver then writes
\* one 413 response, leaves the connection open and goes back to read on it
C19_HeaderTooLargeIs413 ==
    [][/\ (HeaderReadTakes /\ Len(Accumulated) >= HeaderMax
           /\ ~bytes_contain(Accumulated, CRLFCRLF)) =>
              pc' = "hc_match" /\ ret' = Err("MaxSizeExceeded")
       /\ (pc = "reading" /\ rd.k = "hc_match" /\ ret' = Err("MaxSizeExceeded")) =>
              /\ HeaderReadTakes /\ Len(Accumulated) >= HeaderMax
              /\ ~bytes_contain(Accumulated, CRLFCRLF)
       /\ (pc = "hc_match" /\ ret = Err("MaxSizeExceeded") /\ pc' # pc) =>
              /\ conn' = "open" /\ out' = out
              /\ pc' = "writing" /\ w'.q = TooLargeResponse /\ w'.k = "hc_loop"
       /\ (pc = "writing" /\ w.k = "hc_loop") => w.q = TooLargeResponse
       /\ (pc = "writing" /\ w.k = "hc_loop" /\ pc' = "hc_loop") =>
              /\ conn' = "open"
              /\ out' = Append(out, [TooLargeResponse[1] EXCEPT !.req = reqno])
       /\ (pc = "hc_loop" /\ pc' # pc) =>
              /\ conn' = "open" /\ out' = out
              /\ pc' = "reading" /\ rd'.op = "read_until" /\ rd'.k = "hc_match"]_vars

C19_Witness ==
    /\ pc = "reading" /\ rd.k = "hc_match" /\ conn = "open"
    /\ out # <<>> /\ out[Len(out)].status = 413 /\ out[Len(out)].req = reqno
    /\ Len(Records(reqno)) = 1

\* C20: when the header read returns no bytes because the client has closed the
\* connection between requests, handle_connection returns Ok and writes nothing
C20_EmptyReadClosesCleanly ==
    [][(pc = "hc_match" /\ ret.ok /\ ret.val = <<>> /\ pc' # pc) =>
          conn' = "ok" /\ out' = out]_vars

\* ------------------------------------------------------------- the serializer
DecimalDigits == {"0", "1", "2", "3", "4", "5", "6", "7", "8", "9"}

\* the reason the static table gives for a code, "Unknown" for a code it lacks
TableReason(code) ==
    IF \E i \in DOMAIN ALL : ALL[i].code = code
    THEN ALL[CHOOSE i \in DOMAIN ALL : ALL[i].code = code].reason
    ELSE "Unknown"

\* the write that carries the status line of the response to request k
HeadOf(k) == SelectSeq(out, LAMBDA r : r.req = k /\ r.part \in {"head", "full"})

\* the handler that served the request, when the route table has the one route
Handler == callbacks[1].callback

\* C21: every response begins with `HTTP/1.1 `, exactly three decimal digits, a
\* space, the reason and CRLF, whatever status code the handler returned; the
\* reason is the one of the static table, or `Unknown` for a code it lacks
C21_StatusLineThreeDigits ==
    \A i \in DOMAIN out :
        out[i].part \in {"head", "full"} =>
            LET l == out[i].line
            IN  /\ Len(l) = 16
                /\ SubSeq(l, 1, 9) = <<"H", "T", "T", "P", "/", "1", ".", "1", " ">>
                /\ \A k \in 10..12 : l[k] \in DecimalDigits
                /\ l[13] = " "
                /\ l[14] = TableReason(out[i].status)
                /\ SubSeq(l, 15, 16) = CRLF

HasHeader(r, k) == \E j \in DOMAIN r.hdrs : r.hdrs[j].k = k

\* the handler has been called for the request being served
HandlerRan == called # <<>> /\ called[Len(called)].req = reqno /\ req # NoReq

\* what the handler returned
HandlerResponse == callback(callbacks[called[Len(called)].listener].callback, req)

\* the body of the response as it goes on the wire
SentBody(head) ==
    IF HasHeader(head, "Content-Encoding") THEN gzip_compress(HandlerResponse.bytes)
    ELSE HandlerResponse.bytes

\* C22 as stated: a handler body of at most BUFFER_SIZE bytes is sent with no
\* Transfer-Encoding header and unchunked, whatever Accept-Encoding the request has
C22_SmallBodyNeverChunked ==
    (HandlerRan /\ Len(HandlerResponse.bytes) <= ResponseBufferSize) =>
        \A i \in DOMAIN out :
            /\ ~HasHeader(out[i], "Transfer-Encoding")
            /\ out[i].part \in {"full", "interim"}

\* C22, amended: the body as sent (compressed when the response is) decides; at most
\* BUFFER_SIZE bytes go out in the one write with the header block and with no
\* Transfer-Encoding header, more go out chunked behind a header block that has one
C22_UnchunkedWhenSentBodyFits ==
    HandlerRan =>
        \A i \in DOMAIN out :
            out[i].part \in {"head", "full"} =>
                IF Len(SentBody(out[i])) <= ResponseBufferSize
                THEN /\ ~HasHeader(out[i], "Transfer-Encoding")
                     /\ out[i].part = "full" /\ out[i].last
                     /\ out[i].bytes = SentBody(out[i])
                ELSE /\ HasHeader(out[i], "Transfer-Encoding")
                     /\ out[i].part = "head" /\ out[i].bytes = <<>>

\* a compressed body that still fits goes out in one write
C22_Witness ==
    /\ pc = "hc_ret" /\ HandlerRan /\ Len(out) = 1
    /\ out[1].part = "full" /\ HasHeader(out[1], "Content-Encoding")
    /\ out[1].bytes = gzip_compress(HandlerResponse.bytes)
    /\ Len(out[1].bytes) <= ResponseBufferSize

\* the response to request k is written to its last write
Complete(k) == Len(Finals(k)) = 1

\* the body bytes written for request k: those of the one write, or of the chunks
Payload(k) ==
    LET rs == Records(k)
        data == SelectSeq(rs, LAMBDA r : r.part = "chunk_data")
    IN  IF rs # <<>> /\ rs[1].part = "full" THEN rs[1].bytes
        ELSE Concat([i \in DOMAIN data |-> data[i].bytes])

\* the Accept-Encoding value of the request, <<>> when it has none
AcceptEncoding ==
    IF get_single(req.headers, S_accept_encoding).some
    THEN get_single(req.headers, S_accept_encoding).v ELSE <<>>

\* C23: for a handler response with a binary content type no write carries a
\* Content-Encoding header and the body bytes written are the handler's, whatever
\* Accept-Encoding the request has
C23_BinaryNeverCompressed ==
    (HandlerRan /\ HandlerResponse.content_type.is_binary) =>
        /\ \A i \in DOMAIN out : ~HasHeader(out[i], "Content-Encoding")
        /\ Complete(reqno) => Payload(reqno) = HandlerResponse.bytes

C23_Witness ==
    /\ HandlerRan /\ HandlerResponse.content_type.is_binary /\ Complete(reqno)
    /\ AcceptEncoding = S_gzip
    /\ Len(HandlerResponse.bytes) = ResponseBodyMax
    /\ Payload(reqno) = HandlerResponse.bytes

\* C24: a handler response whose content type is not binary is written compressed,
\* under a Content-Encoding: gzip header, exactly when the Accept-Encoding value of
\* the request contains `gzip` in any mix of upper and lower case
C24_GzipIffAcceptedAnyCase ==
    (HandlerRan /\ ~HandlerResponse.content_type.is_binary /\ Complete(reqno)) =>
        IF contains(to_lowercase(AcceptEncoding), S_gzip)
        THEN /\ HasHeader(HeadOf(reqno)[1], "Content-Encoding")
             /\ Payload(reqno) = gzip_compress(HandlerResponse.bytes)
        ELSE /\ ~HasHeader(HeadOf(reqno)[1], "Content-Encoding")
             /\ Payload(reqno) = HandlerResponse.bytes

HexDigits == DecimalDigits \cup {"A", "B", "C", "D", "E", "F"}

\* the chunk made of the writes at, and the two after, position i
IsChunk(rs, i, n) ==
    /\ rs[i].part = "chunk_size" /\ rs[i + 1].part = "chunk_data"
    /\ rs[i + 2].part = "chunk_crlf"
    /\ Len(rs[i].bytes) > 2
    /\ SubSeq(rs[i].bytes, Len(rs[i].bytes) - 1, Len(rs[i].bytes)) = CRLF
    /\ \A k \in 1..(Len(rs[i].bytes) - 2) : rs[i].bytes[k] \in HexDigits
    /\ from_str_radix(SubSeq(rs[i].bytes, 1, Len(rs[i].bytes) - 2), 16) = n
    /\ Len(rs[i + 1].bytes) = n
    /\ rs[i + 2].bytes = CRLF

PieceKey(p) ==
    IF position(p, <<"=">>) = -1 THEN p ELSE SubSeq(p, 1, position(p, <<"=">>))

PieceValue(p) ==
    IF position(p, <<"=">>) = -1 THEN <<>>
    ELSE SubSeq(p, position(p, <<"=">>) + 2, Len(p))

\* C26: the query multimap of a parsed request is empty when the target has no `?`;
\* otherwise, with the text after the first `?` cut at every `&` and each piece at
\* its first `=` (a piece without `=` has the empty value), it has one entry for
\* each key, holding the values of that key in the order of the pieces
C26_QueryParams ==
    (HeadParsed /\ req # NoReq) =>
        LET target == split(HeaderLines(hdr)[1], <<" ">>)[2]
            m == req.query_params
            q == position(target, <<"?">>)
            ps == IF q = -1 THEN <<>>
                  ELSE split(SubSeq(target, q + 2, Len(target)), <<"&">>)
        IN  /\ q = -1 => m = <<>>
            /\ \A i \in DOMAIN ps : \E j \in DOMAIN m : m[j].key = PieceKey(ps[i])
            /\ \A j \in DOMAIN m :
                   LET mine == SelectSeq(ps, LAMBDA p : PieceKey(p) = m[j].key)
                   IN  /\ mine # <<>>
                       /\ m[j].vals = [i \in DOMAIN mine |-> PieceValue(mine[i])]
                       /\ m[j].single = (Len(mine) = 1)
            /\ \A j1, j2 \in DOMAIN m : m[j1].key = m[j2].key => j1 = j2

\* `/p?a=1&b?&a=2`: a has 1 then 2, `b?` has the empty value
C26_Witness ==
    /\ HeadParsed /\ req # NoReq
    /\ req.query_params =
           <<[key |-> <<"a">>, single |-> FALSE, vals |-> <<<<"1">>, <<"2">>>>],
             [key |-> <<"b", "?">>, single |-> TRUE, vals |-> <<<<>>>>]>>

\* ------------------------------------------------------------- the multimap
Single(key, value) == [key |-> key, single |-> TRUE, vals |-> <<value>>]

\* C27: in every map reached by add and add_require_single calls each key has at
\* most one entry; add_require_single on a key that is present fails and leaves the
\* map as it is; add on a key that is present appends the value to that key's
\* values, which become a List, and leaves every other entry alone; either call on
\* an absent key appends an entry with Single(value)
C27_MultimapCalls ==
    [][LET c == map_call'
           present == \E i \in DOMAIN map : map[i].key = c.key
       IN  /\ \A i, j \in DOMAIN map' : map'[i].key = map'[j].key => i = j
           /\ ~present => c.ok /\ map' = Append(map, Single(c.key, c.value))
           /\ (present /\ c.op = "add_require_single") => ~c.ok /\ map' = map
           /\ (present /\ c.op = "add") =>
                  /\ c.ok /\ Len(map') = Len(map)
                  /\ \A i \in DOMAIN map :
                         IF map[i].key = c.key
                         THEN map'[i] = [key |-> c.key, single |-> FALSE,
                                        vals |-> Append(map[i].vals, c.value)]
                         ELSE map'[i] = map[i]]_map_vars

\* a key with two values in the order of the calls, a second key with Single, and
\* a refused add_require_single
C27_Witness ==
    /\ map = <<[key |-> <<"a">>, single |-> FALSE, vals |-> <<<<"2">>, <<"1">>>>],
               Single(<<"b">>, <<"2">>)>>
    /\ map_call = [op |-> "add_require_single", key |-> <<"b">>, value |-> <<"1">>,
                   ok |-> FALSE]

\* ------------------------------------------------------------- the route table
\* C28: once the accept loop has returned the route table and its closures are
\* released, also while connection tasks are running, and once they are released no
\* connection task takes up a request
C28_TableReleasedWithAcceptLoop ==
    /\ [](accept_pc = "done" => released)
    /\ [][released => \A c \in Connections :
                          ~(tasks[c].st = "reading" /\ tasks'[c].st = "writing")]_vars

\* ------------------------------------------------------------- absolute form
S_scheme == <<"h", "t", "t", "p", ":", "/", "/">>

\* the target is `http://`, a host and a path that starts at the next `/`
IsAbsoluteForm(target) ==
    /\ starts_with(target, S_scheme)
    /\ \E i \in (Len(S_scheme) + 2)..Len(target) : target[i] = "/"

\* the origin form of an absolute-form target: from the first `/` after the host
OriginForm(target) ==
    LET i == CHOOSE i \in (Len(S_scheme) + 2)..Len(target) :
                 /\ target[i] = "/"
                 /\ \A j \in (Len(S_scheme) + 2)..(i - 1) : target[j] # "/"
    IN  SubSeq(target, i, Len(target))

\* C29: a request with the absolute-form target `http://host/p` is dispatched as one
\* with the target `/p`: the first route that fits `/p` and the method is called,
\* with the path parameters of `/p`, and no handler when none fits
C29_AbsoluteFormAsOriginForm ==
    (Dispatched /\ req.method # "OPTIONS" /\ IsAbsoluteForm(req.path)) =>
        LET p == OriginForm(req.path)
            fits == {i \in DOMAIN callbacks :
                        /\ SegmentsMatch(callbacks[i].path, p)
                        /\ callbacks[i].method \in {req.method, "ALL"}}
        IN  IF fits = {} THEN Calls(reqno) = <<>>
            ELSE LET first == CHOOSE i \in fits : \A j \in fits : i <= j
                 IN  Calls(reqno) =
                         <<[req |-> reqno, listener |-> first,
                            path_params |-> Bindings(callbacks[first].path, p)]>>

\* ------------------------------------------------------------- read_until
\* what has been taken from the stream so far
Consumed == SubSeq(follow, 1, Len(follow) - Len(sock))

\* the delimiter ends at position i of the bytes
EndsAt(s, d, i) == i >= Len(d) /\ i <= Len(s) /\ SubSeq(s, i - Len(d) + 1, i) = d

\* C30: read_until(delim, max), whatever the stream and the sizes of the reads:
\* it goes on reading only while the bytes taken hold no delimiter and are fewer
\* than max; it returns, at the first delimiter in them, the bytes up to its end and
\* the bytes taken after it; MaxSizeExceeded when max bytes are taken with no
\* delimiter; at the end of the stream the bytes taken and nothing more. The two
\* parts returned are the bytes taken, and never more than max are taken
C30_ReadUntil ==
    [][(pc = "reading" /\ rd.op = "read_until") =>
          LET taken == Consumed'
              ends == {i \in 1..Len(taken) : EndsAt(taken, rd.delim, i)}
          IN  /\ Len(taken) <= rd.size
              /\ taken \o sock' = follow
              /\ IF pc' = "reading"
                 THEN ends = {} /\ Len(taken) < rd.size /\ rd'.out = taken
                 ELSE IF ends # {}
                 THEN LET i == CHOOSE i \in ends : \A j \in ends : i <= j
                      IN  ret' = Ok(SubSeq(taken, 1, i), SubSeq(taken, i + 1, Len(taken)))
                 ELSE IF sock' = sock
                 THEN sock = <<>> /\ peer = "closed" /\ ret' = Ok(taken, <<>>)
                 ELSE Len(taken) = rd.size /\ ret' = Err("MaxSizeExceeded")]_vars

\* a delimiter found, and a byte that was read past it handed back
C30_Witness ==
    /\ pc = "returned" /\ ret.ok
    /\ ret.val = <<"a", "CR", "LF">> /\ ret.extra = <<"CR">>
    /\ sock = <<>> /\ follow = ret.val \o ret.extra

\* ------------------------------------------------------------- chunked bodies
\* read_chunked has a chunk-size line in hand whose text is no hexadecimal number
NotHexSizeLine ==
    /\ pc = "ck_size" /\ Len(ck.size_bytes) >= Len(CRLF)
    /\ LET line == trim(Expand(Slice(ck.size_bytes, 0, Len(ck.size_bytes) - Len(CRLF))))
       IN  \E i \in DOMAIN line :
               line[i] \notin HexDigits \cup {"a", "b", "c", "d", "e", "f"}

\* C31: when a chunk-size line is no hexadecimal number read_chunked returns
\* UnexpectedError, parse_body turns it into InvalidBody, the client is answered 400
\* and no handler is called with the bytes decoded so far
C31_NotHexSizeLineIs400 ==
    [][/\ NotHexSizeLine => (pc' = "pb_ret" /\ ret' = Err("UnexpectedError"))
       /\ (pc = "pb_ret" /\ ret = Err("UnexpectedError")) => perr' = "InvalidBody"
       /\ (pc = "pr_match" /\ perr = "InvalidBody") =>
              /\ w'.q = send_simple_response(status(400))
              /\ called' = called]_vars

\* ------------------------------------------------------------- header lines
\* the tchar characters: ASCII letters, ASCII digits and the signs of the grammar
TChars ==
    AsciiAlphanumeric
    \cup {"!", "#", "$", "%", "&", "'", "*", "+", "-", ".", "^", "_", "BACKTICK", "|", "~"}

\* the bytes outside TAB and 32..=126 that the model has: the control characters and
\* the bytes of a character outside ASCII
NotValueBytes == ControlChars \cup NonAsciiLetters \cup InvalidUtf8

\* a line `name: value` whose name is made of tchar and whose value of TAB and 32..=126
LineAccepted(line) ==
    LET sp == split_once(line, <<":">>)
        name == to_lowercase(trim_end(sp.a))
        value == trim_start(sp.b)
    IN  /\ \A i \in DOMAIN name : name[i] \in TChars
        /\ \A i \in DOMAIN value : value[i] \notin NotValueBytes

\* C32: a header line with a `:` is accepted exactly when its name, without trailing
\* whitespace and in lower case, is made of tchar characters only and every byte of
\* its value, without leading whitespace, is TAB or in 32..=126; every other such
\* line fails the parse with InvalidHeader
C32_HeaderLineAcceptedIffTcharAndPrintable ==
    HeadParsed =>
        LET lines == HeaderLines(hdr)
            with_colon == {i \in DOMAIN lines \ {1} : split_once(lines[i], <<":">>).some}
        IN  (perr = "InvalidHeader") <=> (\E i \in with_colon : ~LineAccepted(lines[i]))

\* ------------------------------------------------------------- after a rejection
\* the request before the one in hand was answered 400 or 413
AfterRejection ==
    /\ reqno >= 2 /\ Finals(reqno - 1) # <<>>
    /\ Finals(reqno - 1)[1].status \in {400, 413}

\* C33: after a 400 or a 413 that leaves the connection open, the bytes of the
\* rejected request that were not read (its body, the rest of a header block that
\* was too long) are not parsed as the start of a new request: the block handed to
\* parse_request next starts where the client started a request
C33_RejectedBytesNotParsed ==
    (pc = "parse_request" /\ AfterRejection) => Head(hdr) \in Tokens

\* ------------------------------------------------------------- read_chunked
\* C34: read_chunked returns, for every input, after finitely many reads; at the end
\* of the stream with a size line without CRLF in the carry-over it does not read on
\* for ever
C34_ReadChunkedReturns == InReadChunked ~> ~InReadChunked

\* C35: whatever the stream, the carry-over and the sizes of the reads, truncated and
\* malformed bodies included, read_chunked takes no slice out of bounds and computes
\* no negative length: a chunked request never ends in a panic, read_chunked returns
\* a body or a ReadError
C35_ReadChunkedNeverPanics ==
    (inreq /\ get_single(req.headers, S_transfer_encoding).some) =>
        /\ conn # "panic"
        /\ pc = "pb_ret" =>
              \/ ret.ok
              \/ ret.err \in {"MaxSizeExceeded", "Timeout", "Cancellation", "IoError",
                              "UnexpectedError"}

\* ------------------------------------------------------------- one response
\* parse_request returned a request and process_request is at, or past, its routing
Routing ==
    /\ inreq /\ perr = "none" /\ req.method # "None"
    /\ pc = "dispatch" \/ pc = "hc_ret" \/ (pc = "writing" /\ w.k = "hc_ret")

\* C36: a request that parsed gets exactly one final response before process_request
\* returns to the driver, which then reads again or closes: none is written before
\* the routing, one is begun and not ended while its writes go on, and when they are
\* done there is one status line, not 1xx, and one end of a response, the last write;
\* it is the response of the handler that was called, 200 or 404 for OPTIONS, and
\* 404 or 405 otherwise
C36_ExactlyOneFinalResponse ==
    Routing =>
        LET heads == HeadOf(reqno)
            ends == Finals(reqno)
            rs == Records(reqno)
        IN  /\ pc = "dispatch" => heads = <<>> /\ ends = <<>>
            /\ pc = "writing" => Len(heads) <= 1 /\ ends = <<>>
            /\ pc = "hc_ret" =>
                  /\ Len(heads) = 1 /\ Len(ends) = 1 /\ rs[Len(rs)].last
                  /\ heads[1].status \notin 100..199
                  /\ IF Calls(reqno) # <<>>
                     THEN /\ Len(Calls(reqno)) = 1
                          /\ heads[1].status =
                                 callback(callbacks[Calls(reqno)[1].listener].callback,
                                          req).status_code
                     ELSE IF req.method = "OPTIONS" THEN heads[1].status \in {200, 404}
                     ELSE heads[1].status \in {404, 405}

\* the response of the handler called, after the interim response of parse_request
C36_Witness ==
    /\ Routing /\ pc = "hc_ret" /\ Len(Calls(reqno)) = 1
    /\ Interims(reqno) # <<>>
    /\ Len(HeadOf(reqno)) = 1 /\ HeadOf(reqno)[1].status = 200

\* ------------------------------------------------------------- the interim response
\* the framing headers of the block are refused by parse_body without a read: a
\* Content-Length that is no number or is above request_body_max_size, or, with no
\* Content-Length, a Transfer-Encoding other than chunked
FramingRefused(h) ==
    LET content_lengths == HeaderValues(h, S_content_length)
        transfer_encodings == HeaderValues(h, S_transfer_encoding)
    IN  \/ \E v \in content_lengths :
               from_str_radix(v, 10) = -1 \/ from_str_radix(v, 10) > BodyMax
        \/ content_lengths = {} /\ \E v \in transfer_encodings : v # S_chunked

\* C37: no 100 Continue is written for a request that is then rejected for its
\* headers alone: a Content-Length that is no number or exceeds
\* request_body_max_size, or a Transfer-Encoding other than chunked
C37_NoInterimBeforeHeaderRejection ==
    (inreq /\ FramingRefused(hdr)) => Interims(reqno) = <<>>

\* ------------------------------------------------------------- the query in routing
\* the text of a target after its last `/`
LastSegment(target) ==
    LET slashes == {i \in DOMAIN target : target[i] = "/"}
    IN  IF slashes = {} THEN target
        ELSE SubSeq(target, (CHOOSE i \in slashes : \A j \in slashes : j <= i) + 1,
                    Len(target))

\* C38: the routes are matched against the target as it was sent, query string
\* included: a target `/p?k=v` is not matched by a literal route, `/p` or any other,
\* and is answered 404 when no parameterised route matches it either; the handler of
\* a parameterised route that matches gets, for a parameter in the last segment, the
\* rest of the target with the `?` and the query string
C38_RoutedOnRawTarget ==
    (Dispatched /\ req.method # "OPTIONS" /\ contains(req.path, <<"?">>)
     /\ ~contains(req.path, S_http)) =>
        LET fits == {i \in DOMAIN callbacks :
                        /\ SegmentsMatch(callbacks[i].path, req.path)
                        /\ callbacks[i].method \in {req.method, "ALL"}}
        IN  /\ \A i \in DOMAIN Calls(reqno) :
                   contains(callbacks[Calls(reqno)[i].listener].path, <<":">>)
            /\ IF Calls(reqno) = <<>>
               THEN /\ fits = {}
                    /\ (pc = "hc_ret"
                        /\ \A i \in DOMAIN callbacks :
                               ~SegmentsMatch(callbacks[i].path, req.path)) =>
                           Finals(reqno)[1].status = 404
               ELSE LET c == Calls(reqno)[1]
                        pattern == callbacks[c.listener].path
                    IN  /\ c.listener \in fits
                        /\ c.path_params # <<>>
                        /\ IsParam(LastSegment(pattern)) =>
                              c.path_params[Len(c.path_params)] =
                                  [key |-> Tail(LastSegment(pattern)),
                                   value |-> LastSegment(req.path)]

\* `/u/7?a=1` on the route /u/:id: id is bound to `7?a=1`
C38_Witness ==
    /\ Dispatched /\ pc = "hc_ret"
    /\ req.path = <<"/", "u", "/", "7", "?", "a", "=", "1">>
    /\ Len(called) = 1 /\ callbacks[called[1].listener].path = <<"/", "u", "/", ":", "i", "d">>
    /\ called[1].path_params = <<[key |-> <<"i", "d">>, value |-> <<"7", "?", "a", "=", "1">>]>>

C40_HandshakeDelaysNothing ==
    /\ []((\E c \in Connections : tasks[c].st = "handshake") =>
              /\ (\E d \in Connections : tasks[d].st = "none") =>
                     ENABLED run_https_accepted
              /\ user_chan.msgs > 0 => ENABLED accept_connection_cancelled)
    /\ (user_chan.sent /\ \E c \in Connections : tasks[c].st = "handshake")
           ~> accept_pc = "done"

====
